---- MODULE Spec2Model ----
(***************************************************************************)
(* Model of the response-shaping and diff engine of argocd-mcp             *)
(* (src/tools/helpers.go, src/tools/argocd_tools.go).                      *)
(*                                                                         *)
(* Go values (interface{}) are records tagged by k:                        *)
(*   "str"  a string, kept as the sequence of its lines (the pieces        *)
(*          between "\n"); a line is <<o, e>>: o bytes of the original     *)
(*          content followed by e bytes written by a truncation marker     *)
(*   "text" a short scalar string of a document, kept as its text          *)
(*   "num"  an integer, "bool", "null" (nil)                               *)
(*   "seq"  []interface{}                                                  *)
(*   "map"  map[string]interface{}                                         *)
(*   "imap" map[interface{}]interface{} (what yaml.v2 decodes a nested     *)
(*          mapping into)                                                  *)
(***************************************************************************)
EXTENDS Integers, Sequences, FiniteSets, TLC

VARIABLES
    bIn, bOut, bPc,          \* ResponseBounder: the value handed to Result, its payload
    dTarget, dLive, dVia, dOut, dPc, \* StructuralDiffer: the two documents, the entry point, the diff
    dShown,                  \* the target and live texts get_application_diff puts in its result
    evRaw, evOut, evPc,      \* EventNormalizer: the raw payload, what parseEvents returned
    safeMode,                \* ToolManager.safeMode
    request,                 \* the tool call in progress: tool name and arguments
    response,                \* what the platform client returned to that call
    platformCalls,           \* the client methods that call invoked, in order
    submitted,               \* the object that call handed to the client to be written
    result                   \* the CallToolResult of that call

vars == <<bIn, bOut, bPc, dTarget, dLive, dVia, dOut, dPc, dShown, evRaw, evOut, evPc,
          safeMode, request, response, platformCalls, submitted, result>>

bVars == <<bIn, bOut, bPc>>
dVars == <<dTarget, dLive, dVia, dOut, dPc, dShown>>
eVars == <<evRaw, evOut, evPc>>
tVars == <<safeMode, request, response, platformCalls, submitted, result>>

(***************************************************************************)
(* Response limits (helpers.go, const block).                              *)
(***************************************************************************)
MaxListItems == 50
MaxEvents == 20
MaxDiffResources == 20
MaxManifests == 20
MaxResponseLines == 100
MaxResponseSizeChars == 50000

(***************************************************************************)
(* Bounds of the model.                                                    *)
(***************************************************************************)
\* nesting depth of the values handed to truncateResponse
MaxDepth == 2
\* how far beyond a ceiling the generated strings and sequences go
MaxOver == 2

(***************************************************************************)
(* Values.                                                                 *)
(***************************************************************************)
Str(lines) == [k |-> "str", lines |-> lines]
Text(t) == [k |-> "text", t |-> t]
Num(n) == [k |-> "num", n |-> n]
Bool(b) == [k |-> "bool", b |-> b]
Null == [k |-> "null"]
List(items) == [k |-> "seq", items |-> items]
Obj(fields) == [k |-> "map", fields |-> fields]
IObj(fields) == [k |-> "imap", fields |-> fields]

\* n lines of l bytes each
Uniform(n, l) == [i \in 1..n |-> <<l, 0>>]

LineLen(line) == line[1] + line[2]

\* the bytes of lines lo..hi
RECURSIVE SumLines(_, _, _)
SumLines(lines, lo, hi) ==
    IF lo > hi THEN 0
    ELSE IF lo = hi THEN LineLen(lines[lo])
    ELSE LET mid == (lo + hi) \div 2
         IN SumLines(lines, lo, mid) + SumLines(lines, mid + 1, hi)

\* the bytes up to the end of line j: the lines and one "\n" between two lines
Upto(lines, j) == IF j = 0 THEN 0 ELSE SumLines(lines, 1, j) + j - 1

\* len(s)
StrLen(s) == Upto(s.lines, Len(s.lines))

\* len(strings.Split(s, "\n"))
LineCount(s) == Len(s.lines)

\* s[:m] for 0 <= m <= len(s), as lines: whole lines, then the line the cut
\* falls in
PrefixLines(lines, m) ==
    LET j == CHOOSE i \in 1..Len(lines) :
                 /\ Upto(lines, i) >= m \/ i = Len(lines)
                 /\ \A h \in 1..(i - 1) : Upto(lines, h) < m
        rest == IF j = 1 THEN m ELSE m - Upto(lines, j - 1) - 1
        h == lines[j]
    IN SubSeq(lines, 1, j - 1)
       \o << IF rest <= h[1] THEN <<rest, 0>> ELSE <<h[1], rest - h[1]>> >>

\* s + marker, for a marker of n bytes holding no "\n"
AppendMarker(lines, n) ==
    [lines EXCEPT ![Len(lines)] = <<@[1], @[2] + n>>]

truncateString_OffByOne(s, maxChars) ==
    IF StrLen(s) < maxChars THEN s
    ELSE IF maxChars <= 3 THEN Str(<< <<0, maxChars>> >>)
    ELSE Str(AppendMarker(PrefixLines(s.lines, maxChars - 3), 3))

truncateString(s, maxChars) ==
    IF StrLen(s) <= maxChars THEN s
    ELSE IF maxChars <= 3 THEN Str(<< <<0, maxChars>> >>)
    ELSE Str(AppendMarker(PrefixLines(s.lines, maxChars - 3), 3))

\* "... (truncated)" is 15 bytes, joined to the kept lines by "\n"
truncateLines(s, maxLines) ==
    IF LineCount(s) <= maxLines THEN s
    ELSE Str(SubSeq(s.lines, 1, maxLines) \o << <<0, 15>> >>)

RECURSIVE truncateResponse(_)
truncateResponse(value) ==
    CASE value.k = "str" ->
           truncateLines(truncateString(value, MaxResponseSizeChars), MaxResponseLines)
      [] value.k = "seq" ->
           IF Len(value.items) > MaxListItems
           THEN List(SubSeq(value.items, 1, MaxListItems))
           ELSE value
      [] value.k = "map" ->
           Obj([key \in DOMAIN value.fields |-> truncateResponse(value.fields[key])])
      [] OTHER -> value

(***************************************************************************)
(* Inputs of the ResponseBounder.                                          *)
(***************************************************************************)
\* the longest line that lets MaxResponseLines lines stay under the character ceiling
FullLine == (MaxResponseSizeChars \div MaxResponseLines) - 1

StrInputs ==
    { Str(Uniform(1, 0)), Str(Uniform(1, 7)), Str(Uniform(3, 7)) }
    \cup { Str(Uniform(1, MaxResponseSizeChars + o)) : o \in 0..MaxOver }
    \cup { Str(Uniform(MaxResponseLines + o, 1)) : o \in 0..MaxOver }
    \cup { Str(Uniform(MaxResponseLines, FullLine) \o Uniform(o, 0)) : o \in 0..MaxOver }

SeqInputs ==
    { List([i \in 1..n |-> Num(i)]) :
        n \in {0, 1} \cup { MaxListItems + o : o \in 0..MaxOver } }

Leaves == StrInputs \cup SeqInputs \cup {Num(0), Bool(TRUE), Null}

RECURSIVE Values(_)
Values(d) ==
    IF d = 0 THEN Leaves
    ELSE LET V == Values(d - 1) IN
         Leaves
         \cup { List(<<v>>) : v \in V }
         \cup { List(<<Num(0), v>>) : v \in V }
         \cup { Obj([a |-> v]) : v \in V }
         \cup { Obj([a |-> Num(0), b |-> v]) : v \in V }

BInit ==
    /\ bIn \in Values(MaxDepth)
    /\ bOut = Null
    /\ bPc = "ready"

\* Result(data, nil): data = truncateResponse(data), then marshalled
\* the caller's value once truncateResponse has returned: the map case
\* fills a fresh map, the sequence case reslices, nothing is written to v
truncateResponseArgument_InPlace(v) == truncateResponse(v)

truncateResponseArgument(v) == v

BResult ==
    /\ bPc = "ready"
    /\ bOut' = truncateResponse(bIn)
    /\ bIn' = truncateResponseArgument(bIn)
    /\ bPc' = "done"

(***************************************************************************)
(* Documents.  A manifest text is a record tagged by fmt: "empty" (""),    *)
(* "json" or "yaml" (well-formed, holding the document tree doc, whose     *)
(* mappings are tagged "map"), or "raw" (text that is neither).            *)
(***************************************************************************)
EmptyText == [fmt |-> "empty"]
JsonText(doc) == [fmt |-> "json", doc |-> doc]
YamlText(doc) == [fmt |-> "yaml", doc |-> doc]
RawText(t) == [fmt |-> "raw", t |-> t]

\* the keys of the documents, in sorted order (fmt prints a map by sorted key)
KeyOrder == <<"data", "data.key", "data[0]", "key", "managedFields">>

EmptyFields == [x \in {} |-> Null]
RemoveKey(f, key) == [x \in (DOMAIN f) \ {key} |-> f[x]]

IsMapping(v) == v.k \in {"map", "imap"}

\* fmt.Sprintf("%v", v)
RECURSIVE Sprint(_)
RECURSIVE SprintFields(_, _, _)
RECURSIVE SprintItems(_, _)
SprintFields(f, i, first) ==
    IF i > Len(KeyOrder) THEN ""
    ELSE IF KeyOrder[i] \in DOMAIN f
         THEN (IF first THEN "" ELSE " ") \o KeyOrder[i] \o ":" \o Sprint(f[KeyOrder[i]])
              \o SprintFields(f, i + 1, FALSE)
         ELSE SprintFields(f, i + 1, first)
SprintItems(items, i) ==
    IF i > Len(items) THEN ""
    ELSE (IF i = 1 THEN "" ELSE " ") \o Sprint(items[i]) \o SprintItems(items, i + 1)
Sprint(v) ==
    CASE v.k = "text" -> v.t
      [] v.k = "num" -> ToString(v.n)
      [] v.k = "bool" -> (IF v.b THEN "true" ELSE "false")
      [] v.k = "null" -> "<nil>"
      [] v.k = "seq" -> "[" \o SprintItems(v.items, 1) \o "]"
      [] IsMapping(v) -> "map[" \o SprintFields(v.fields, 1, TRUE) \o "]"
      [] OTHER -> ""

\* json.Unmarshal([]byte(text), &data) with data interface{}: every object
\* becomes a map[string]interface{}
jsonUnmarshal(text) ==
    IF text.fmt = "json" THEN [ok |-> TRUE, v |-> text.doc]
    ELSE [ok |-> FALSE, v |-> Null]

\* yaml.v2 decodes a mapping that lands in an interface{} as
\* map[interface{}]interface{}
RECURSIVE yamlDecodeAny(_)
yamlDecodeAny(doc) ==
    CASE doc.k = "map" -> IObj([key \in DOMAIN doc.fields |-> yamlDecodeAny(doc.fields[key])])
      [] doc.k = "seq" -> List([i \in 1..Len(doc.items) |-> yamlDecodeAny(doc.items[i])])
      [] OTHER -> doc

\* yaml.Unmarshal([]byte(text), &m) with m map[string]interface{} (yaml.v2):
\* the top-level mapping is a map[string]interface{}, every mapping below it
\* a map[interface{}]interface{}; a null document leaves m nil
yamlUnmarshalMap(text) ==
    IF text.fmt \in {"yaml", "json"} /\ text.doc.k = "map"
    THEN [ok |-> TRUE,
          v |-> Obj([key \in DOMAIN text.doc.fields |-> yamlDecodeAny(text.doc.fields[key])])]
    ELSE IF text.fmt \in {"yaml", "json"} /\ text.doc.k = "null"
    THEN [ok |-> TRUE, v |-> Obj(EmptyFields)]
    ELSE [ok |-> FALSE, v |-> Null]

jsonToYaml_EmptyOnFailure(jsonStr) ==
    IF jsonStr.fmt = "empty" THEN EmptyText
    ELSE IF ~jsonUnmarshal(jsonStr).ok THEN EmptyText
    ELSE YamlText(jsonUnmarshal(jsonStr).v)

\* yaml.Marshal does not fail on what json.Unmarshal produced
jsonToYaml(jsonStr) ==
    IF jsonStr.fmt = "empty" THEN EmptyText
    ELSE IF ~jsonUnmarshal(jsonStr).ok THEN jsonStr
    ELSE YamlText(jsonUnmarshal(jsonStr).v)

stripManagedFieldsYaml_KeepAll(jsonStr) == jsonToYaml(jsonStr)

stripManagedFieldsYaml(jsonStr) ==
    IF jsonStr.fmt = "empty" THEN EmptyText
    ELSE LET r == jsonUnmarshal(jsonStr) IN
         IF ~r.ok \/ r.v.k \notin {"map", "null"} THEN jsonToYaml(jsonStr)
         ELSE IF r.v.k = "null" THEN jsonToYaml(JsonText(Null))
         ELSE jsonToYaml(JsonText(Obj(RemoveKey(r.v.fields, "managedFields"))))

(***************************************************************************)
(* The diff.  A line of the diff is kept as a record: path, kind, and the  *)
(* printed values.  "  %s: %v (REMOVED)" and "  %s: %v (ADDED)" print one  *)
(* value (left); "  %s: %v -> %v" prints left before the arrow and right   *)
(* after it.  Go ranges over a map in an unspecified order, so each        *)
(* operator yields the set of line sequences the code can produce.         *)
(***************************************************************************)
Line(path, kind, left, right) ==
    [path |-> path, kind |-> kind, left |-> left, right |-> right]

SeqCat(A, B) == { a \o b : a \in A, b \in B }

\* the orders in which a range over a map with key set S can visit it
Orders(S) == { s \in [1..Cardinality(S) -> S] : \A i, j \in 1..Cardinality(S) : s[i] = s[j] => i = j }

JoinPath(path, key) == IF path = "" THEN key ELSE path \o "." \o key

\* fmt.Sprintf("  %s: %v -> %v", path, live, target)
changedLine(path, target, live) ==
    Line(path, "CHANGED", Sprint(live), Sprint(target))

leafDiffers_Always(target, live) == TRUE

leafDiffers(target, live) == Sprint(target) # Sprint(live)

RECURSIVE compareMaps(_, _, _)
RECURSIVE compareValues(_, _, _)
RECURSIVE compareSlices(_, _, _, _)
RECURSIVE compareKeys(_, _, _, _, _)

\* the first loop of compareMaps, over the keys of target in the order ord
compareKeys(path, target, live, ord, i) ==
    IF i > Len(ord) THEN { <<>> }
    ELSE LET key == ord[i]
             currentPath == JoinPath(path, key)
             here == IF key \notin DOMAIN live
                     THEN { << Line(currentPath, "REMOVED", Sprint(target[key]), "") >> }
                     ELSE compareValues(currentPath, target[key], live[key])
         IN SeqCat(here, compareKeys(path, target, live, ord, i + 1))

compareMaps_AddedFirst(path, target, live) ==
    LET removedOrChanged ==
            UNION { compareKeys(path, target, live, ord, 1) : ord \in Orders(DOMAIN target) }
        added ==
            { [i \in 1..Len(ord) |->
                  Line(JoinPath(path, ord[i]), "ADDED", Sprint(live[ord[i]]), "")] :
              ord \in Orders((DOMAIN live) \ (DOMAIN target)) }
    IN SeqCat(added, removedOrChanged)

compareMaps(path, target, live) ==
    LET removedOrChanged ==
            UNION { compareKeys(path, target, live, ord, 1) : ord \in Orders(DOMAIN target) }
        added ==
            { [i \in 1..Len(ord) |->
                  Line(JoinPath(path, ord[i]), "ADDED", Sprint(live[ord[i]]), "")] :
              ord \in Orders((DOMAIN live) \ (DOMAIN target)) }
    IN SeqCat(removedOrChanged, added)

compareValues(path, target, live) ==
    IF target.k = "map" /\ live.k = "map"
    THEN compareMaps(path, target.fields, live.fields)
    ELSE IF target.k = "seq" /\ live.k = "seq"
    THEN compareSlices(path, target.items, live.items, 1)
    ELSE IF leafDiffers(target, live)
    THEN { << changedLine(path, target, live) >> }
    ELSE { <<>> }

\* the loop of compareSlices from index i (1-based here, printed 0-based)
compareSlices(path, target, live, i) ==
    LET maxLen == IF Len(live) > Len(target) THEN Len(live) ELSE Len(target)
        itemPath == path \o "[" \o ToString(i - 1) \o "]"
    IN IF i > maxLen THEN { <<>> }
       ELSE SeqCat(
              IF i > Len(target)
              THEN { << Line(itemPath, "ADDED", Sprint(live[i]), "") >> }
              ELSE IF i > Len(live)
              THEN { << Line(itemPath, "REMOVED", Sprint(target[i]), "") >> }
              ELSE compareValues(itemPath, target[i], live[i]),
              compareSlices(path, target, live, i + 1))

\* the diffs computeDiff can return; <<>> is the empty string
computeDiff(target, live) ==
    IF target.fmt = "empty" \/ live.fmt = "empty" THEN { <<>> }
    ELSE LET t == yamlUnmarshalMap(target)
             l == yamlUnmarshalMap(live)
         IN IF ~t.ok \/ ~l.ok THEN { <<>> }
            ELSE compareMaps("", t.v.fields, l.v.fields)

(***************************************************************************)
(* Inputs of the StructuralDiffer.                                         *)
(***************************************************************************)
\* the longest sequence of a generated document
MaxSeqLen == 2

Scalars == { Text("new"), Text("old"), Text("1"), Num(1) }

SeqVals ==
    UNION { { List(s) : s \in [1..n -> { Text("new"), Text("old") }] } : n \in 0..MaxSeqLen }

InnerMaps == { Obj(EmptyFields) } \cup { Obj([key |-> v]) : v \in Scalars }

DataVals ==
    Scalars \cup SeqVals \cup InnerMaps
    \cup { Obj([key |-> v]) : v \in SeqVals \cup InnerMaps }
    \cup { List(<<m>>) : m \in InnerMaps }

\* a sequence that holds the string "1" and the number 1, in both orders
MixedSeqs == { List(<<Text("1"), Num(1)>>), List(<<Num(1), Text("1")>>) }

\* objects with a key that looks like a path: "data[0]" next to a sequence
\* under data, "data.key" next to an object under data
PathLikeObjs ==
    { Obj([x \in {"data", "data[0]"} |-> IF x = "data" THEN List(<<v>>) ELSE v]) :
        v \in { Text("new"), Text("old") } }
    \cup { Obj([x \in {"data", "data.key"} |-> IF x = "data" THEN Obj([key |-> v]) ELSE v]) :
             v \in { Text("new"), Text("old") } }

\* an object with a managedFields key below the top level
NestedManagedFields == Obj([data |-> Obj([managedFields |-> List(<<Text("new")>>)])])

TopObjs ==
    { Obj(EmptyFields), NestedManagedFields }
    \cup { Obj([data |-> d]) : d \in MixedSeqs }
    \cup PathLikeObjs
    \cup { Obj([data |-> d]) : d \in DataVals }
    \cup { Obj([key |-> v]) : v \in { Text("new"), Text("old") } }
    \cup { Obj([data |-> d, key |-> v]) : d \in DataVals, v \in { Text("new"), Text("old") } }

WithManagedFields(o) ==
    Obj([x \in (DOMAIN o.fields) \cup {"managedFields"} |->
           IF x = "managedFields" THEN List(<<Text("new")>>) ELSE o.fields[x]])

NonObjects == { EmptyText, RawText("target"), RawText("live") }

YamlInputs ==
    { YamlText(o) : o \in TopObjs } \cup { YamlText(Text("new")) } \cup NonObjects

JsonInputs ==
    { JsonText(o) : o \in TopObjs } \cup { JsonText(WithManagedFields(o)) : o \in TopObjs }
    \cup { JsonText(Null), JsonText(List(<<Num(1)>>)) } \cup NonObjects

DInit ==
    /\ \/ dVia = "yaml" /\ dTarget \in YamlInputs /\ dLive \in YamlInputs
       \/ dVia = "json" /\ dTarget \in JsonInputs /\ dLive \in JsonInputs
    /\ dOut = <<>>
    /\ dShown = <<EmptyText, EmptyText>>
    /\ dPc = "ready"

\* computeDiff(target, live) on two YAML manifests
DComputeDiff ==
    /\ dPc = "ready" /\ dVia = "yaml"
    /\ dOut' \in computeDiff(dTarget, dLive)
    /\ dPc' = "done"
    /\ UNCHANGED <<dTarget, dLive, dVia, dShown>>

\* handleGetApplicationDiff on one out-of-sync resource: strip, render, compare
DPipeline ==
    /\ dPc = "ready" /\ dVia = "json"
    /\ dShown' = <<stripManagedFieldsYaml(dTarget), stripManagedFieldsYaml(dLive)>>
    /\ dOut' \in computeDiff(dShown'[1], dShown'[2])
    /\ dPc' = "done"
    /\ UNCHANGED <<dTarget, dLive, dVia>>

(***************************************************************************)
(* Tool results and argument access (helpers.go).                          *)
(***************************************************************************)
NoResult == [kind |-> "none", data |-> Null, err |-> "nil"]
\* a Go panic in the handler: no CallToolResult is returned
Panic == [kind |-> "panic", data |-> Null, err |-> "nil"]

\* errorResult(message): IsError = true, the message as text; every caller
\* returns it with a nil error
errorResult(message) == [kind |-> "error", data |-> Text(message), err |-> "nil"]

\* Result(data, nil): the payload is truncated, then marshalled; the second
\* return value is nil on every path
Result(data) == [kind |-> "ok", data |-> truncateResponse(data), err |-> "nil"]

ResultList_CountAsTotal(items, total) ==
    IF items.k # "seq" THEN Panic
    ELSE [kind |-> "ok",
          data |-> Obj([items |-> truncateResponse(items),
                        total |-> Num(Len(truncateResponse(items).items))]),
          err |-> "nil"]

\* ResultList(items, total, nil): items.([]interface{}) panics on any other
\* type; the response struct has the two fields items and total
ResultList(items, total) ==
    IF items.k # "seq" THEN Panic
    ELSE [kind |-> "ok",
          data |-> Obj([items |-> truncateResponse(items), total |-> Num(total)]),
          err |-> "nil"]

\* Int(arguments, key, defaultValue): a JSON number, or the default
IntArg(arguments, key, defaultValue) ==
    IF key \in DOMAIN arguments /\ arguments[key].k = "num"
    THEN arguments[key].n
    ELSE defaultValue

(***************************************************************************)
(* parseEvents: the raw value is marshalled to JSON and read back, first   *)
(* as an object with an items field, then as a bare list.                  *)
(***************************************************************************)
\* json.Unmarshal(data, &items) with items []map[string]interface{}:
\* null or a list whose elements are objects or null
IsRecordList(v) ==
    \/ v.k = "null"
    \/ v.k = "seq" /\ \A i \in 1..Len(v.items) : v.items[i].k \in {"map", "null"}

RecordsOf(v) == IF v.k = "null" THEN <<>> ELSE v.items

parseEvents_NoFallback(eventsRaw) ==
    IF /\ eventsRaw.k = "map"
       /\ "items" \in DOMAIN eventsRaw.fields
       /\ IsRecordList(eventsRaw.fields["items"])
    THEN [ok |-> TRUE, events |-> RecordsOf(eventsRaw.fields["items"])]
    ELSE [ok |-> FALSE, events |-> <<>>]

parseEvents(eventsRaw) ==
    IF /\ eventsRaw.k = "map"
       /\ "items" \in DOMAIN eventsRaw.fields
       /\ IsRecordList(eventsRaw.fields["items"])
    THEN [ok |-> TRUE, events |-> RecordsOf(eventsRaw.fields["items"])]
    ELSE IF IsRecordList(eventsRaw)
    THEN [ok |-> TRUE, events |-> RecordsOf(eventsRaw)]
    ELSE [ok |-> FALSE, events |-> <<>>]

\* eventMap[key]: nil when the key is missing or the map is nil
Field(event, key) ==
    IF event.k = "map" /\ key \in DOMAIN event.fields THEN event.fields[key] ELSE Null

\* the map built for one event in handleGetApplicationEvents / handleGetProjectEvents
eventItem(event) ==
    IF event.k # "map" THEN Null
    ELSE Obj([type |-> Field(event, "type"), reason |-> Field(event, "reason"),
              message |-> Field(event, "message"), timestamp |-> Field(event, "timestamp")])

(***************************************************************************)
(* The platform client, as the handlers see it.                            *)
(***************************************************************************)
\* the most entries the platform returns to one call
MaxPlatformItems == 52

\* a short one-line string of i bytes: the name of the i-th entry
Name(i) == Str(Uniform(1, i))

ClientError == [ok |-> FALSE, items |-> <<>>, raw |-> Null]

\* a list call returns its entries in the platform's order
ListResponses ==
    { [ok |-> TRUE, items |-> [i \in 1..n |-> i], raw |-> Null] : n \in 0..MaxPlatformItems }
    \cup { ClientError }

\* the i-th event: every second one lacks its timestamp and carries a field
\* the handlers do not read
Event(i) ==
    IF i % 2 = 1
    THEN Obj([type |-> Text("Normal"), reason |-> Text("Synced"),
              message |-> Name(i), timestamp |-> Text("t")])
    ELSE Obj([type |-> Text("Warning"), reason |-> Text("Failed"),
              message |-> Name(i), involvedObject |-> Obj([name |-> Text("myapp")])])

Events(n) == List([i \in 1..n |-> Event(i)])

EventResponses ==
    { [ok |-> TRUE, items |-> <<>>, raw |-> Obj([items |-> Events(n)])] : n \in 0..MaxPlatformItems }
    \cup { [ok |-> TRUE, items |-> <<>>, raw |-> Events(n)] : n \in 0..MaxPlatformItems }
    \cup { [ok |-> TRUE, items |-> <<>>, raw |-> r] :
             r \in { Null, Obj(EmptyFields), Obj([items |-> Null]), Text("none"),
                     Obj([items |-> List(<<Num(1)>>)]), List(<<Null, Event(1)>>) } }
    \cup { ClientError }

(***************************************************************************)
(* parseEvents applied to one raw payload.                                 *)
(***************************************************************************)
EventPayloads ==
    { Obj([items |-> Events(n)]) : n \in 0..MaxPlatformItems }
    \cup { Events(n) : n \in 0..MaxPlatformItems }
    \cup { Null, Obj(EmptyFields), Obj([items |-> Null]), Text("none"), Num(1),
           Obj([items |-> List(<<Num(1)>>)]), List(<<Num(1)>>),
           List(<<Null, Event(1)>>), Obj([metadata |-> Obj(EmptyFields)]) }

EInit ==
    /\ evRaw \in EventPayloads
    /\ evOut = [ok |-> TRUE, events |-> <<>>]
    /\ evPc = "ready"

\* events, parseErr := parseEvents(eventsRaw)
EParseEvents ==
    /\ evPc = "ready"
    /\ evOut' = parseEvents(evRaw)
    /\ evPc' = "done"
    /\ UNCHANGED evRaw

(***************************************************************************)
(* Handlers (argocd_tools.go).                                             *)
(***************************************************************************)
\* apps.Items[:limit] when len(apps.Items) > limit; a negative limit panics
ApplyLimit(items, limit) ==
    IF Len(items) > limit
    THEN IF limit < 0 THEN [ok |-> FALSE, items |-> <<>>]
         ELSE [ok |-> TRUE, items |-> SubSeq(items, 1, limit)]
    ELSE [ok |-> TRUE, items |-> items]

\* formatApplicationSummary, reduced to the field that identifies the entry
formatApplicationSummary(app) == Obj([name |-> Name(app)])

listApplications_TotalAfterLimit(arguments, resp) ==
    LET given == IntArg(arguments, "limit", MaxListItems)
        limit == IF given > 100 THEN 100 ELSE given
    IN IF ~resp.ok THEN errorResult("client error")
       ELSE LET cut == ApplyLimit(resp.items, limit)
            IN IF ~cut.ok THEN Panic
               ELSE ResultList(List([i \in 1..Len(cut.items) |->
                                        formatApplicationSummary(cut.items[i])]),
                               Len(cut.items))

\* handleListApplications after the client call: the limit is capped at 100
listApplications(arguments, resp) ==
    LET given == IntArg(arguments, "limit", MaxListItems)
        limit == IF given > 100 THEN 100 ELSE given
    IN IF ~resp.ok THEN errorResult("client error")
       ELSE LET total == Len(resp.items)
                cut == ApplyLimit(resp.items, limit)
            IN IF ~cut.ok THEN Panic
               ELSE ResultList(List([i \in 1..Len(cut.items) |->
                                        formatApplicationSummary(cut.items[i])]),
                               total)

\* the maps the other list handlers build, reduced to their fields
projectItem(proj) == Obj([name |-> Name(proj), description |-> Text("")])
repositoryItem(repo) == Obj([repo |-> Name(repo), type |-> Text("git"), name |-> Name(repo)])
clusterItem(c) == Obj([server |-> Name(c), name |-> Name(c)])

\* handleListProjects after the client call: the limit is not capped
listProjects(arguments, resp) ==
    LET limit == IntArg(arguments, "limit", MaxListItems)
    IN IF ~resp.ok THEN errorResult("client error")
       ELSE LET total == Len(resp.items)
                cut == ApplyLimit(resp.items, limit)
            IN IF ~cut.ok THEN Panic
               ELSE ResultList(List([i \in 1..Len(cut.items) |-> projectItem(cut.items[i])]),
                               total)

\* handleListRepositories after the client call
listRepositories(arguments, resp) ==
    LET limit == IntArg(arguments, "limit", MaxListItems)
    IN IF ~resp.ok THEN errorResult("client error")
       ELSE LET total == Len(resp.items)
                cut == ApplyLimit(resp.items, limit)
            IN IF ~cut.ok THEN Panic
               ELSE ResultList(List([i \in 1..Len(cut.items) |-> repositoryItem(cut.items[i])]),
                               total)

\* handleListClusters after the client call
listClusters(arguments, resp) ==
    LET limit == IntArg(arguments, "limit", MaxListItems)
    IN IF ~resp.ok THEN errorResult("client error")
       ELSE LET total == Len(resp.items)
                cut == ApplyLimit(resp.items, limit)
            IN IF ~cut.ok THEN Panic
               ELSE ResultList(List([i \in 1..Len(cut.items) |-> clusterItem(cut.items[i])]),
                               total)

\* handleGetApplicationEvents after the client call
getApplicationEvents(arguments, resp) ==
    LET limit == IntArg(arguments, "limit", MaxEvents)
    IN IF ~resp.ok THEN errorResult("client error")
       ELSE LET parsed == parseEvents(resp.raw)
            IN IF ~parsed.ok THEN errorResult("Failed to parse events")
               ELSE LET total == Len(parsed.events)
                        cut == ApplyLimit(parsed.events, limit)
                    IN IF ~cut.ok THEN Panic
                       ELSE Result(Obj([items |-> List([i \in 1..Len(cut.items) |->
                                                           eventItem(cut.items[i])]),
                                        total |-> Num(total)]))

\* handleGetProjectEvents after the client call: no limit argument
getProjectEvents(arguments, resp) ==
    IF ~resp.ok THEN errorResult("client error")
    ELSE LET parsed == parseEvents(resp.raw)
         IN IF ~parsed.ok THEN errorResult("Failed to parse events")
            ELSE Result(Obj([items |-> List([i \in 1..Len(parsed.events) |->
                                                eventItem(parsed.events[i])]),
                             total |-> Num(Len(parsed.events))]))

(***************************************************************************)
(* Tool calls.  CallTool starts a call; the handler of the named tool      *)
(* runs it to its result against what the platform client returns.         *)
(***************************************************************************)
NoRequest == [tool |-> "none", args |-> EmptyFields]
\* request.Params.Arguments that is not a map[string]interface{}
InvalidArguments == [notAMap |-> Text("arguments")]
NoResponse == [ok |-> TRUE, items |-> <<>>, raw |-> Null]

(***************************************************************************)
(* Argument access and the outcome of a handler: its result, the client    *)
(* methods it called, what it handed to the client to be written, and the  *)
(* last answer of the client.                                              *)
(***************************************************************************)
\* String(arguments, key, defaultValue): a string argument, or the default
StringArg(arguments, key, defaultValue) ==
    IF key \in DOMAIN arguments /\ arguments[key].k = "text"
    THEN arguments[key].t
    ELSE defaultValue

\* Bool(arguments, key, defaultValue): a boolean argument, or the default
BoolArg(arguments, key, defaultValue) ==
    IF key \in DOMAIN arguments /\ arguments[key].k = "bool"
    THEN arguments[key].b
    ELSE defaultValue

\* a slice whose static type is not []interface{} ([]string, a slice of
\* structs): truncateResponse leaves it as it is
TypedSlice(items) == [k |-> "typed", items |-> items]

\* the handler returned before it reached the client
Rejected(res) ==
    [result |-> res, calls |-> <<>>, submitted |-> Null, response |-> NoResponse]

\* the handler returned after the client calls `calls`, the last answered by resp
Called(res, calls, sent, resp) ==
    [result |-> res, calls |-> calls, submitted |-> sent, response |-> resp]

checkSafeMode_Never(operation) == NoResult

\* tm.checkSafeMode(operation): an error result in safe mode, nil (NoResult) otherwise
checkSafeMode(operation) ==
    IF safeMode
    THEN errorResult("Operation '" \o operation \o "' is not allowed in safe mode")
    ELSE NoResult

\* err.Error() of a failed client call, as an error result
clientFailure == errorResult("client error")

(***************************************************************************)
(* Applications.                                                           *)
(***************************************************************************)
\* Spec.Source of an application that has one
Source == Obj([repoURL |-> Text("https://github.com/test/repo"), path |-> Text("."),
               targetRevision |-> Text("HEAD")])

\* an *v1alpha1.Application, reduced to the fields the handlers read;
\* source is Null for a nil Spec.Source
App(source) ==
    Obj([name |-> Text("myapp"), project |-> Text("default"), source |-> source,
         status |-> Text("Synced"), health |-> Text("Healthy"), revision |-> Text("abc")])

AppResponses ==
    { [ok |-> TRUE, items |-> <<>>, raw |-> App(s)] : s \in { Source, Null } }
    \cup { ClientError }

\* a client method that returns only an error
ErrorOrNil == { NoResponse, ClientError }

\* formatApplicationDetail(app): app.Spec.Source.RepoURL dereferences
\* Spec.Source, a nil pointer dereference when the application has none
formatApplicationDetail(app) ==
    LET f == app.fields IN
    IF f["source"].k = "null" THEN [ok |-> FALSE, data |-> Null]
    ELSE [ok |-> TRUE,
          data |-> Obj([name |-> f["name"], project |-> f["project"],
                        repo_url |-> f["source"].fields["repoURL"],
                        path |-> f["source"].fields["path"],
                        target_revision |-> f["source"].fields["targetRevision"],
                        status |-> f["status"], health |-> f["health"],
                        revision |-> f["revision"]])]

\* return Result(formatApplicationDetail(app), nil)
detailResult(app) ==
    LET d == formatApplicationDetail(app)
    IN IF d.ok THEN Result(d.data) ELSE Panic

\* handleGetApplication
getApplication(arguments, resp) ==
    IF ~resp.ok THEN Called(clientFailure, <<"GetApplication">>, Null, resp)
    ELSE Called(detailResult(resp.raw), <<"GetApplication">>, Null, resp)

\* handleCreateApplication
createApplication(arguments, resp) ==
    IF checkSafeMode("create_application") # NoResult
    THEN Rejected(checkSafeMode("create_application"))
    ELSE LET sent == Obj([name |-> Text(StringArg(arguments, "name", "")),
                          project |-> Text(StringArg(arguments, "project", "")),
                          source |-> Obj([repoURL |-> Text(StringArg(arguments, "repo_url", "")),
                                          path |-> Text(StringArg(arguments, "path", "")),
                                          targetRevision |->
                                              Text(StringArg(arguments, "target_revision", "HEAD"))])])
         IN IF ~resp.ok THEN Called(clientFailure, <<"CreateApplication">>, sent, resp)
            ELSE Called(detailResult(resp.raw), <<"CreateApplication">>, sent, resp)

\* the fields handleUpdateApplication overwrites in the application it fetched
updatedApplication(arguments, existingApp) ==
    LET project == StringArg(arguments, "project", "")
        repoURL == StringArg(arguments, "repo_url", "")
        path == StringArg(arguments, "path", "")
        targetRevision == StringArg(arguments, "target_revision", "")
        f == existingApp.fields
        src == f["source"]
        newSrc == IF src.k = "null" THEN src
                  ELSE Obj([repoURL |-> IF repoURL # "" THEN Text(repoURL)
                                        ELSE src.fields["repoURL"],
                            path |-> IF path # "" THEN Text(path) ELSE src.fields["path"],
                            targetRevision |-> IF targetRevision # "" THEN Text(targetRevision)
                                               ELSE src.fields["targetRevision"]])
    IN Obj([f EXCEPT !["project"] = IF project # "" THEN Text(project) ELSE @,
                     !["source"] = newSrc])

\* handleUpdateApplication
updateApplication(arguments, existing, updated) ==
    IF checkSafeMode("update_application") # NoResult
    THEN Rejected(checkSafeMode("update_application"))
    ELSE IF ~existing.ok THEN Called(clientFailure, <<"GetApplication">>, Null, existing)
    ELSE LET sent == updatedApplication(arguments, existing.raw)
             calls == <<"GetApplication", "UpdateApplication">>
         IN IF ~updated.ok THEN Called(clientFailure, calls, sent, updated)
            ELSE Called(detailResult(updated.raw), calls, sent, updated)

\* handleDeleteApplication
deleteApplication(arguments, resp) ==
    IF checkSafeMode("delete_application") # NoResult
    THEN Rejected(checkSafeMode("delete_application"))
    ELSE LET name == StringArg(arguments, "name", "")
             sent == Obj([name |-> Text(name), cascade |-> Bool(BoolArg(arguments, "cascade", TRUE))])
         IN IF ~resp.ok THEN Called(clientFailure, <<"DeleteApplication">>, sent, resp)
            ELSE Called(Result(Obj([message |-> Text("Application " \o name \o " deleted successfully"),
                                    success |-> Bool(TRUE)])),
                        <<"DeleteApplication">>, sent, resp)

\* the status map of handleSyncApplication and handleRollbackApplication
operationStatus(message, app) ==
    Obj([message |-> Text(message), status |-> app.fields["status"],
         health |-> app.fields["health"], revision |-> app.fields["revision"]])

syncApplication_RejectInSafeMode(arguments, resp) ==
    LET name == StringArg(arguments, "name", "")
        prune == BoolArg(arguments, "prune", FALSE)
        sent == Obj([name |-> Text(name), revision |-> Text(StringArg(arguments, "revision", "")),
                     prune |-> Bool(prune)])
    IN IF safeMode
       THEN Rejected(errorResult("sync_application with prune=true is not allowed in safe mode"))
       ELSE IF ~resp.ok THEN Called(clientFailure, <<"SyncApplication">>, sent, resp)
       ELSE Called(Result(operationStatus("Application " \o name \o " sync initiated", resp.raw)),
                   <<"SyncApplication">>, sent, resp)

\* handleSyncApplication: in safe mode only prune = true is refused
syncApplication(arguments, resp) ==
    LET name == StringArg(arguments, "name", "")
        prune == BoolArg(arguments, "prune", FALSE)
        sent == Obj([name |-> Text(name), revision |-> Text(StringArg(arguments, "revision", "")),
                     prune |-> Bool(prune)])
    IN IF safeMode /\ prune
       THEN Rejected(errorResult("sync_application with prune=true is not allowed in safe mode"))
       ELSE IF ~resp.ok THEN Called(clientFailure, <<"SyncApplication">>, sent, resp)
       ELSE Called(Result(operationStatus("Application " \o name \o " sync initiated", resp.raw)),
                   <<"SyncApplication">>, sent, resp)

\* handleRollbackApplication
rollbackApplication(arguments, resp) ==
    IF checkSafeMode("rollback_application") # NoResult
    THEN Rejected(checkSafeMode("rollback_application"))
    ELSE LET name == StringArg(arguments, "name", "")
             sent == Obj([name |-> Text(name)])
         IN IF ~resp.ok THEN Called(clientFailure, <<"RollbackApplication">>, sent, resp)
            ELSE Called(Result(operationStatus("Application " \o name \o " rolled back", resp.raw)),
                        <<"RollbackApplication">>, sent, resp)

(***************************************************************************)
(* Manifests and the diff of an application.                               *)
(***************************************************************************)
\* truncateString on a manifest text.  The manifests of the model are short
\* documents, far below any maxChars the handlers pass: len(s) <= maxChars
\* holds and the text is returned as it is.
truncateText(text, maxChars) == text

\* the i-th manifest the platform returns: JSON, text that is not JSON, ""
Manifest(i) ==
    CASE i % 3 = 1 -> JsonText(Obj([data |-> Obj([key |-> Text("new")])]))
      [] i % 3 = 2 -> RawText("not json")
      [] OTHER -> EmptyText

ManifestResponses ==
    { [ok |-> TRUE, items |-> [i \in 1..n |-> Manifest(i)], raw |-> Null] :
        n \in 0..MaxPlatformItems }
    \cup { ClientError }

\* handleGetApplicationManifests: yamlManifests is a []string
getApplicationManifests(arguments, resp) ==
    IF ~resp.ok THEN Called(clientFailure, <<"GetApplicationManifests">>, Null, resp)
    ELSE LET total == Len(resp.items)
             manifests == IF total > MaxManifests THEN SubSeq(resp.items, 1, MaxManifests)
                          ELSE resp.items
             yamlManifests == [i \in 1..Len(manifests) |->
                                 truncateText(jsonToYaml(manifests[i]), MaxResponseSizeChars)]
         IN Called(Result(Obj([manifests |-> TypedSlice(yamlManifests),
                               count |-> Num(Len(manifests)),
                               total |-> Num(total),
                               limited |-> Bool(total > MaxManifests)])),
                   <<"GetApplicationManifests">>, Null, resp)

\* the i-th managed resource: in sync, flagged Modified, or carrying only the
\* deprecated Diff text
Resource(i) ==
    [name |-> i,
     modified |-> (i % 3 = 1),
     diff |-> IF i % 3 = 2 THEN "diff" ELSE "",
     targetState |-> JsonText(Obj([data |-> Text("new")])),
     liveState |-> IF i % 3 = 1
                   THEN JsonText(Obj([data |-> Text("old"),
                                      managedFields |-> List(<<Text("m")>>)]))
                   ELSE JsonText(Obj([data |-> Text("new")]))]

\* the managed resources the platform returns: n of them, all in sync, all
\* out of sync, or mixed
ResourceLists ==
    { [i \in 1..n |-> Resource(3 * i)] : n \in 0..MaxPlatformItems }
    \cup { [i \in 1..n |-> Resource(3 * i + 1)] : n \in 0..MaxPlatformItems }
    \cup { [i \in 1..n |-> Resource(i)] : n \in 0..MaxPlatformItems }

ResourceResponses ==
    { [ok |-> TRUE, items |-> rs, raw |-> Null] : rs \in ResourceLists } \cup { ClientError }

\* r.Modified || r.Diff != ""
IsOutOfSync(r) == r.modified \/ r.diff # ""

IsSynced(r) == ~IsOutOfSync(r)

\* the first n elements of s that a loop guarded by len(out) < n appends
TakeUpTo(s, n) ==
    IF n <= 0 THEN <<>> ELSE IF Len(s) > n THEN SubSeq(s, 1, n) ELSE s

\* resourceInfo of a resource in sync
syncedInfo(r) == Obj([name |-> Name(r.name), status |-> Text("Synced")])

\* resourceInfo of an out-of-sync resource, for each diff computeDiff can return
outOfSyncInfos(r) ==
    LET targetState == stripManagedFieldsYaml(r.targetState)
        liveState == stripManagedFieldsYaml(r.liveState)
    IN { Obj([name |-> Name(r.name), status |-> Text("OutOfSync"),
              target |-> truncateText(targetState, MaxResponseSizeChars \div 2),
              live |-> truncateText(liveState, MaxResponseSizeChars \div 2),
              diff |-> [k |-> "diff", lines |-> d]]) :
         d \in computeDiff(targetState, liveState) }

\* the out_of_sync lists the loop of handleGetApplicationDiff can build from
\* the resources rs[lo..hi]
RECURSIVE outOfSyncLists(_, _, _)
outOfSyncLists(rs, lo, hi) ==
    IF lo > hi THEN { <<>> }
    ELSE IF lo = hi THEN { <<info>> : info \in outOfSyncInfos(rs[lo]) }
    ELSE LET mid == (lo + hi) \div 2
         IN SeqCat(outOfSyncLists(rs, lo, mid), outOfSyncLists(rs, mid + 1, hi))

\* handleGetApplicationDiff: the results it can return
getApplicationDiff(arguments, resp) ==
    LET name == StringArg(arguments, "name", "")
        limit == IntArg(arguments, "limit", MaxDiffResources)
    IN IF ~resp.ok THEN { Called(clientFailure, <<"GetManagedResources">>, Null, resp) }
       ELSE LET reported == TakeUpTo(SelectSeq(resp.items, IsOutOfSync), limit)
                synced == TakeUpTo(SelectSeq(resp.items, IsSynced), limit)
            IN { Called(Result(Obj([application |-> Text(name),
                                    out_of_sync |-> List(outOfSync),
                                    synced |-> List([i \in 1..Len(synced) |-> syncedInfo(synced[i])]),
                                    total |-> Num(Len(resp.items)),
                                    out_of_sync_count |-> Num(Len(outOfSync)),
                                    limited |-> Bool(Len(resp.items) > limit)])),
                        <<"GetManagedResources">>, Null, resp) :
                 outOfSync \in outOfSyncLists(reported, 1, Len(reported)) }

(***************************************************************************)
(* Resources of an application.                                            *)
(***************************************************************************)
\* the resource request built from the arguments
resourceRequest(arguments) ==
    Obj([name |-> Text(StringArg(arguments, "name", "")),
         group |-> Text(StringArg(arguments, "group", "")),
         kind |-> Text(StringArg(arguments, "kind", "")),
         namespace |-> Text(StringArg(arguments, "namespace", "")),
         resourceName |-> Text(StringArg(arguments, "resource_name", "")),
         version |-> Text("v1")])

\* a resource manifest as the client returns it
ResourceManifestResponses ==
    { [ok |-> TRUE, items |-> <<>>, raw |-> Text("kind: ConfigMap")], ClientError }

\* handleListResourceActions
listResourceActions(arguments, resp) ==
    IF ~resp.ok THEN Called(clientFailure, <<"ListResourceActions">>, Null, resp)
    ELSE Called(Result(Obj([actions |-> List([i \in 1..Len(resp.items) |->
                                                Obj([name |-> Name(resp.items[i])])]),
                            total |-> Num(Len(resp.items))])),
                <<"ListResourceActions">>, Null, resp)

\* handleRunResourceAction
runResourceAction(arguments, resp) ==
    IF checkSafeMode("run_resource_action") # NoResult
    THEN Rejected(checkSafeMode("run_resource_action"))
    ELSE LET sent == resourceRequest(arguments)
         IN IF ~resp.ok THEN Called(clientFailure, <<"RunResourceAction">>, sent, resp)
            ELSE Called(Result(Obj([message |-> Text("Action '"
                                                     \o StringArg(arguments, "action", "")
                                                     \o "' executed"),
                                    success |-> Bool(TRUE)])),
                        <<"RunResourceAction">>, sent, resp)

\* handleGetApplicationResource
getApplicationResource(arguments, resp) ==
    IF ~resp.ok THEN Called(clientFailure, <<"GetApplicationResource">>, Null, resp)
    ELSE Called(Result(Obj([resource |-> resp.raw, success |-> Bool(TRUE)])),
                <<"GetApplicationResource">>, Null, resp)

\* handlePatchApplicationResource
patchApplicationResource(arguments, resp) ==
    IF checkSafeMode("patch_application_resource") # NoResult
    THEN Rejected(checkSafeMode("patch_application_resource"))
    ELSE LET sent == resourceRequest(arguments)
         IN IF ~resp.ok THEN Called(clientFailure, <<"PatchApplicationResource">>, sent, resp)
            ELSE Called(Result(Obj([resource |-> resp.raw,
                                    message |-> Text("Resource patched successfully"),
                                    success |-> Bool(TRUE)])),
                        <<"PatchApplicationResource">>, sent, resp)

\* handleDeleteApplicationResource
deleteApplicationResource(arguments, resp) ==
    IF checkSafeMode("delete_application_resource") # NoResult
    THEN Rejected(checkSafeMode("delete_application_resource"))
    ELSE LET sent == resourceRequest(arguments)
         IN IF ~resp.ok THEN Called(clientFailure, <<"DeleteApplicationResource">>, sent, resp)
            ELSE Called(Result(Obj([message |-> Text("Resource deleted successfully"),
                                    success |-> Bool(TRUE)])),
                        <<"DeleteApplicationResource">>, sent, resp)

(***************************************************************************)
(* Projects.                                                               *)
(***************************************************************************)
\* an *v1alpha1.AppProject, reduced to the fields the handlers read
Project(description) ==
    Obj([name |-> Text("default"), description |-> Text(description),
         sourceRepos |-> TypedSlice(<<Text("*")>>), destinations |-> TypedSlice(<<>>)])

ProjectResponses ==
    { [ok |-> TRUE, items |-> <<>>, raw |-> Project("")], ClientError }

\* handleGetProject
getProject(arguments, resp) ==
    IF ~resp.ok THEN Called(clientFailure, <<"GetProject">>, Null, resp)
    ELSE Called(Result(Obj([name |-> resp.raw.fields["name"],
                            description |-> resp.raw.fields["description"],
                            source_repos |-> resp.raw.fields["sourceRepos"],
                            destinations |-> resp.raw.fields["destinations"]])),
                <<"GetProject">>, Null, resp)

\* the map handleCreateProject and handleUpdateProject return
projectResult(proj, message) ==
    Result(Obj([name |-> proj.fields["name"], description |-> proj.fields["description"],
                message |-> Text(message)]))

\* handleCreateProject
createProject(arguments, resp) ==
    IF checkSafeMode("create_project") # NoResult
    THEN Rejected(checkSafeMode("create_project"))
    ELSE LET name == StringArg(arguments, "name", "")
             sent == Obj([name |-> Text(name),
                          description |-> Text(StringArg(arguments, "description", ""))])
         IN IF ~resp.ok THEN Called(clientFailure, <<"CreateProject">>, sent, resp)
            ELSE Called(projectResult(resp.raw, "Project " \o name \o " created successfully"),
                        <<"CreateProject">>, sent, resp)

\* handleUpdateProject
updateProject(arguments, existing, updated) ==
    IF checkSafeMode("update_project") # NoResult
    THEN Rejected(checkSafeMode("update_project"))
    ELSE IF ~existing.ok THEN Called(clientFailure, <<"GetProject">>, Null, existing)
    ELSE LET name == StringArg(arguments, "name", "")
             description == StringArg(arguments, "description", "")
             sent == Obj([existing.raw.fields EXCEPT
                            !["description"] = IF description # "" THEN Text(description) ELSE @])
             calls == <<"GetProject", "UpdateProject">>
         IN IF ~updated.ok THEN Called(clientFailure, calls, sent, updated)
            ELSE Called(projectResult(updated.raw, "Project " \o name \o " updated successfully"),
                        calls, sent, updated)

\* handleDeleteProject
deleteProject(arguments, resp) ==
    IF checkSafeMode("delete_project") # NoResult
    THEN Rejected(checkSafeMode("delete_project"))
    ELSE LET name == StringArg(arguments, "name", "")
             sent == Obj([name |-> Text(name)])
         IN IF ~resp.ok THEN Called(clientFailure, <<"DeleteProject">>, sent, resp)
            ELSE Called(Result(Obj([message |-> Text("Project " \o name \o " deleted successfully"),
                                    success |-> Bool(TRUE)])),
                        <<"DeleteProject">>, sent, resp)

(***************************************************************************)
(* Repositories.                                                           *)
(***************************************************************************)
\* an *v1alpha1.Repository, reduced to the fields the handlers read
Repository(name) ==
    Obj([repo |-> Text("https://github.com/test/repo"), type |-> Text("git"),
         name |-> Text(name), username |-> Text(""), password |-> Text(""),
         sshPrivateKey |-> Text(""),
         connectionState |-> Obj([status |-> Text("Successful")])])

RepositoryResponses ==
    { [ok |-> TRUE, items |-> <<>>, raw |-> Repository("repo")], ClientError }

\* the fields of a repository every repository handler returns
repositoryFields(repo) ==
    [repo |-> repo.fields["repo"], type |-> repo.fields["type"], name |-> repo.fields["name"],
     connection_state |-> repo.fields["connectionState"]]

\* the map handleCreateRepository and handleUpdateRepository return
repositoryResult(repo, message) ==
    Result(Obj([x \in {"repo", "type", "name", "connection_state", "message", "success"} |->
                  CASE x = "message" -> Text(message)
                    [] x = "success" -> Bool(TRUE)
                    [] OTHER -> repositoryFields(repo)[x]]))

\* handleGetRepository
getRepository(arguments, resp) ==
    IF ~resp.ok THEN Called(clientFailure, <<"GetRepository">>, Null, resp)
    ELSE Called(Result(Obj(repositoryFields(resp.raw))), <<"GetRepository">>, Null, resp)

\* handleCreateRepository
createRepository(arguments, resp) ==
    IF checkSafeMode("create_repository") # NoResult
    THEN Rejected(checkSafeMode("create_repository"))
    ELSE LET repoURL == StringArg(arguments, "repo_url", "")
             sent == Obj([repo |-> Text(repoURL),
                          type |-> Text(StringArg(arguments, "type", "git")),
                          name |-> Text(StringArg(arguments, "name", "")),
                          username |-> Text(StringArg(arguments, "username", "")),
                          password |-> Text(StringArg(arguments, "password", "")),
                          sshPrivateKey |-> Text(StringArg(arguments, "ssh_private_key", "")),
                          insecure |-> Bool(BoolArg(arguments, "insecure", FALSE))])
         IN IF repoURL = "" THEN Rejected(errorResult("repo_url is required"))
            ELSE IF ~resp.ok THEN Called(clientFailure, <<"CreateRepository">>, sent, resp)
            ELSE Called(repositoryResult(resp.raw, "Repository " \o repoURL \o " created successfully"),
                        <<"CreateRepository">>, sent, resp)

\* handleUpdateRepository
updateRepository(arguments, existing, updated) ==
    IF checkSafeMode("update_repository") # NoResult
    THEN Rejected(checkSafeMode("update_repository"))
    ELSE LET repoURL == StringArg(arguments, "repo_url", "")
             name == StringArg(arguments, "name", "")
             username == StringArg(arguments, "username", "")
             password == StringArg(arguments, "password", "")
             sshPrivateKey == StringArg(arguments, "ssh_private_key", "")
             calls == <<"GetRepository", "UpdateRepository">>
         IN IF repoURL = "" THEN Rejected(errorResult("repo_url is required"))
            ELSE IF ~existing.ok
            THEN Called(errorResult("failed to get existing repository: client error"),
                        <<"GetRepository">>, Null, existing)
            ELSE LET sent == Obj([existing.raw.fields EXCEPT
                                    !["name"] = IF name # "" THEN Text(name) ELSE @,
                                    !["username"] = IF username # "" THEN Text(username) ELSE @,
                                    !["password"] = IF password # "" THEN Text(password) ELSE @,
                                    !["sshPrivateKey"] =
                                        IF sshPrivateKey # "" THEN Text(sshPrivateKey) ELSE @])
                 IN IF ~updated.ok THEN Called(clientFailure, calls, sent, updated)
                    ELSE Called(repositoryResult(updated.raw,
                                                 "Repository " \o repoURL \o " updated successfully"),
                                calls, sent, updated)

\* handleDeleteRepository
deleteRepository(arguments, resp) ==
    IF checkSafeMode("delete_repository") # NoResult
    THEN Rejected(checkSafeMode("delete_repository"))
    ELSE LET repoURL == StringArg(arguments, "repo_url", "")
             sent == Obj([repo |-> Text(repoURL)])
         IN IF ~resp.ok THEN Called(clientFailure, <<"DeleteRepository">>, sent, resp)
            ELSE Called(Result(Obj([message |-> Text("Repository " \o repoURL
                                                     \o " deleted successfully"),
                                    success |-> Bool(TRUE)])),
                        <<"DeleteRepository">>, sent, resp)

validateRepository_ErrorResult(arguments, resp) ==
    LET repoURL == StringArg(arguments, "repo_url", "")
    IN IF ~resp.ok
       THEN Called(clientFailure, <<"ValidateRepositoryAccess">>, Null, resp)
       ELSE Called(Result(Obj([repo |-> Text(repoURL), valid |-> Bool(TRUE),
                               message |-> Text("Repository access is valid"),
                               success |-> Bool(TRUE)])),
                   <<"ValidateRepositoryAccess">>, Null, resp)

\* handleValidateRepository: a failed validation is a result, not an error
validateRepository(arguments, resp) ==
    LET repoURL == StringArg(arguments, "repo_url", "")
    IN IF ~resp.ok
       THEN Called(Result(Obj([repo |-> Text(repoURL), valid |-> Bool(FALSE),
                               message |-> Text("client error"),
                               success |-> Bool(FALSE)])),
                   <<"ValidateRepositoryAccess">>, Null, resp)
       ELSE Called(Result(Obj([repo |-> Text(repoURL), valid |-> Bool(TRUE),
                               message |-> Text("Repository access is valid"),
                               success |-> Bool(TRUE)])),
                   <<"ValidateRepositoryAccess">>, Null, resp)

(***************************************************************************)
(* Clusters.                                                               *)
(***************************************************************************)
\* a v1alpha1.ClusterConfig, reduced to its credentials
ClusterConfig(username, password, bearerToken) ==
    Obj([username |-> Text(username), password |-> Text(password),
         bearerToken |-> Text(bearerToken)])

\* an *v1alpha1.Cluster, reduced to the fields the handlers read
Cluster(name) ==
    Obj([server |-> Text("https://kubernetes.default.svc"), name |-> Text(name),
         config |-> ClusterConfig("", "", ""),
         connectionState |-> Obj([status |-> Text("Successful")])])

ClusterResponses ==
    { [ok |-> TRUE, items |-> <<>>, raw |-> Cluster("in-cluster")], ClientError }

\* arguments["config"].(map[string]interface{}) with at least one entry
HasConfig(arguments) ==
    /\ "config" \in DOMAIN arguments
    /\ arguments["config"].k = "map"
    /\ DOMAIN arguments["config"].fields # {}

\* buildClusterConfig(arguments): the error it returns is always nil
buildClusterConfig(arguments) ==
    IF ~HasConfig(arguments) THEN ClusterConfig("", "", "")
    ELSE ClusterConfig(StringArg(arguments["config"].fields, "username", ""),
                       StringArg(arguments["config"].fields, "password", ""),
                       StringArg(arguments["config"].fields, "bearerToken", ""))

\* the fields of a cluster every cluster handler returns
clusterFields(c) ==
    [server |-> c.fields["server"], name |-> c.fields["name"], config |-> c.fields["config"],
     connection_state |-> c.fields["connectionState"]]

\* the map handleCreateCluster and handleUpdateCluster return
clusterResult(c, message) ==
    Result(Obj([x \in {"server", "name", "config", "connection_state", "message", "success"} |->
                  CASE x = "message" -> Text(message)
                    [] x = "success" -> Bool(TRUE)
                    [] OTHER -> clusterFields(c)[x]]))

\* handleGetCluster
getCluster(arguments, resp) ==
    IF ~resp.ok THEN Called(clientFailure, <<"GetCluster">>, Null, resp)
    ELSE Called(Result(Obj(clusterFields(resp.raw))), <<"GetCluster">>, Null, resp)

\* handleCreateCluster
createCluster(arguments, resp) ==
    IF checkSafeMode("create_cluster") # NoResult
    THEN Rejected(checkSafeMode("create_cluster"))
    ELSE LET server == StringArg(arguments, "server", "")
             sent == Obj([server |-> Text(server),
                          name |-> Text(StringArg(arguments, "name", "")),
                          config |-> buildClusterConfig(arguments)])
         IN IF server = "" THEN Rejected(errorResult("server is required"))
            ELSE IF ~resp.ok THEN Called(clientFailure, <<"CreateCluster">>, sent, resp)
            ELSE Called(clusterResult(resp.raw, "Cluster " \o server \o " created successfully"),
                        <<"CreateCluster">>, sent, resp)

\* handleUpdateCluster
updateCluster(arguments, existing, updated) ==
    IF checkSafeMode("update_cluster") # NoResult
    THEN Rejected(checkSafeMode("update_cluster"))
    ELSE LET server == StringArg(arguments, "server", "")
             name == StringArg(arguments, "name", "")
             calls == <<"GetCluster", "UpdateCluster">>
         IN IF server = "" THEN Rejected(errorResult("server is required"))
            ELSE IF ~existing.ok
            THEN Called(errorResult("failed to get existing cluster: client error"),
                        <<"GetCluster">>, Null, existing)
            ELSE LET sent == Obj([existing.raw.fields EXCEPT
                                    !["name"] = IF name # "" THEN Text(name) ELSE @,
                                    !["config"] = IF HasConfig(arguments)
                                                  THEN buildClusterConfig(arguments) ELSE @])
                 IN IF ~updated.ok THEN Called(clientFailure, calls, sent, updated)
                    ELSE Called(clusterResult(updated.raw,
                                              "Cluster " \o server \o " updated successfully"),
                                calls, sent, updated)

\* handleDeleteCluster
deleteCluster(arguments, resp) ==
    IF checkSafeMode("delete_cluster") # NoResult
    THEN Rejected(checkSafeMode("delete_cluster"))
    ELSE LET server == StringArg(arguments, "server", "")
             sent == Obj([server |-> Text(server)])
         IN IF ~resp.ok THEN Called(clientFailure, <<"DeleteCluster">>, sent, resp)
            ELSE Called(Result(Obj([message |-> Text("Cluster " \o server
                                                     \o " deleted successfully"),
                                    success |-> Bool(TRUE)])),
                        <<"DeleteCluster">>, sent, resp)

(***************************************************************************)
(* The calls the model makes.                                              *)
(***************************************************************************)
LimitArgs ==
    { EmptyFields, [limit |-> Text("3")] }
    \cup { [limit |-> Num(l)] :
             l \in { -1, 0, 1, 3, MaxEvents, MaxEvents + 1, MaxListItems,
                     MaxListItems + 1, 100, 101 } }

ListTools == { "list_applications", "list_projects", "list_repositories", "list_clusters" }

\* the tools that write to the platform: each starts with checkSafeMode
WriteTools ==
    { "create_application", "update_application", "delete_application",
      "rollback_application", "run_resource_action", "patch_application_resource",
      "delete_application_resource", "create_project", "update_project", "delete_project",
      "create_repository", "update_repository", "delete_repository",
      "create_cluster", "update_cluster", "delete_cluster" }

\* the cases of the switch in getToolHandler
ToolNames ==
    ListTools \cup WriteTools
    \cup { "get_application", "sync_application", "get_application_manifests",
           "get_application_diff", "get_application_events", "list_resource_actions",
           "get_application_resource", "get_project", "get_project_events",
           "get_repository", "validate_repository", "get_cluster" }

NameArgs == { EmptyFields, [name |-> Text("myapp")] }

ApplicationArgs ==
    { [name |-> Text("myapp")],
      [name |-> Text("myapp"), repo_url |-> Text("https://github.com/test/other")],
      [name |-> Text("myapp"), project |-> Text("other"), repo_url |-> Text("https://github.com/test/other"),
       path |-> Text("deploy"), target_revision |-> Text("v2")] }

SyncArgs ==
    { [name |-> Text("myapp")] }
    \cup { [name |-> Text("myapp"), prune |-> p] : p \in { Bool(TRUE), Bool(FALSE), Text("true"), Num(1) } }

ResourceArgs ==
    { EmptyFields,
      [name |-> Text("myapp"), kind |-> Text("Deployment"), resource_name |-> Text("web"),
       action |-> Text("restart"), force |-> Bool(TRUE)] }

ProjectArgs ==
    { [name |-> Text("default")], [name |-> Text("default"), description |-> Text("updated")] }

RepositoryArgs ==
    { EmptyFields, [repo_url |-> Text("https://github.com/test/repo")],
      [repo_url |-> Text("https://github.com/test/repo"), name |-> Text("renamed")] }

ClusterArgs ==
    { EmptyFields, [server |-> Text("https://kubernetes.default.svc")],
      [server |-> Text("https://kubernetes.default.svc"), name |-> Text("renamed"),
       config |-> Obj([username |-> Text("admin")])],
      [server |-> Text("https://kubernetes.default.svc"), config |-> Text("admin")] }

\* the arguments the model passes to a tool
ArgsOf(t) ==
    CASE t \in ListTools \cup { "get_application_events", "get_application_diff" } -> LimitArgs
      [] t \in { "create_application", "update_application" } -> ApplicationArgs
      [] t = "sync_application" -> SyncArgs
      [] t \in { "list_resource_actions", "run_resource_action", "get_application_resource",
                 "patch_application_resource", "delete_application_resource" } -> ResourceArgs
      [] t \in { "create_project", "update_project" } -> ProjectArgs
      [] t \in { "get_repository", "create_repository", "update_repository",
                 "delete_repository", "validate_repository" } -> RepositoryArgs
      [] t \in { "get_cluster", "create_cluster", "update_cluster", "delete_cluster" } -> ClusterArgs
      [] t = "get_project_events" -> { EmptyFields }
      [] OTHER -> NameArgs

Requests ==
    UNION { { [tool |-> t, args |-> a] : a \in ArgsOf(t) } : t \in ToolNames }
    \cup { [tool |-> "unknown_tool", args |-> EmptyFields] }
    \cup { [tool |-> t, args |-> InvalidArguments] : t \in { "list_applications", "create_application" } }

Pending == request # NoRequest /\ result = NoResult

\* the switch of getToolHandler reaches the case of name: the arguments are a
\* map[string]interface{}
Dispatched(name) == Pending /\ request.args # InvalidArguments /\ request.tool = name

TInit ==
    /\ safeMode \in BOOLEAN
    /\ request = NoRequest
    /\ response = NoResponse
    /\ platformCalls = <<>>
    /\ submitted = Null
    /\ result = NoResult

\* CallTool(ctx, name, arguments)
CallTool ==
    /\ ~Pending
    /\ request' \in Requests
    /\ response' = NoResponse
    /\ platformCalls' = <<>>
    /\ submitted' = Null
    /\ result' = NoResult
    /\ UNCHANGED safeMode

handleListApplications ==
    /\ Dispatched("list_applications")
    /\ \E resp \in ListResponses :
         /\ response' = resp
         /\ result' = listApplications(request.args, resp)
    /\ platformCalls' = <<"ListApplications">>
    /\ UNCHANGED <<safeMode, request, submitted>>

handleListProjects ==
    /\ Dispatched("list_projects")
    /\ \E resp \in ListResponses :
         /\ response' = resp
         /\ result' = listProjects(request.args, resp)
    /\ platformCalls' = <<"ListProjects">>
    /\ UNCHANGED <<safeMode, request, submitted>>

handleListRepositories ==
    /\ Dispatched("list_repositories")
    /\ \E resp \in ListResponses :
         /\ response' = resp
         /\ result' = listRepositories(request.args, resp)
    /\ platformCalls' = <<"ListRepositories">>
    /\ UNCHANGED <<safeMode, request, submitted>>

handleListClusters ==
    /\ Dispatched("list_clusters")
    /\ \E resp \in ListResponses :
         /\ response' = resp
         /\ result' = listClusters(request.args, resp)
    /\ platformCalls' = <<"ListClusters">>
    /\ UNCHANGED <<safeMode, request, submitted>>

handleGetApplicationEvents ==
    /\ Dispatched("get_application_events")
    /\ \E resp \in EventResponses :
         /\ response' = resp
         /\ result' = getApplicationEvents(request.args, resp)
    /\ platformCalls' = <<"GetApplicationEvents">>
    /\ UNCHANGED <<safeMode, request, submitted>>

handleGetProjectEvents ==
    /\ Dispatched("get_project_events")
    /\ \E resp \in EventResponses :
         /\ response' = resp
         /\ result' = getProjectEvents(request.args, resp)
    /\ platformCalls' = <<"GetProjectEvents">>
    /\ UNCHANGED <<safeMode, request, submitted>>

\* the handler returns: its result, the calls it made, what it submitted
Finish(o) ==
    /\ result' = o.result
    /\ platformCalls' = o.calls
    /\ submitted' = o.submitted
    /\ response' = o.response
    /\ UNCHANGED <<safeMode, request>>

handleGetApplication ==
    /\ Dispatched("get_application")
    /\ \E resp \in AppResponses : Finish(getApplication(request.args, resp))

handleCreateApplication ==
    /\ Dispatched("create_application")
    /\ \E resp \in AppResponses : Finish(createApplication(request.args, resp))

handleUpdateApplication ==
    /\ Dispatched("update_application")
    /\ \E existing \in AppResponses, updated \in AppResponses :
         Finish(updateApplication(request.args, existing, updated))

handleDeleteApplication ==
    /\ Dispatched("delete_application")
    /\ \E resp \in ErrorOrNil : Finish(deleteApplication(request.args, resp))

handleSyncApplication ==
    /\ Dispatched("sync_application")
    /\ \E resp \in AppResponses : Finish(syncApplication(request.args, resp))

handleRollbackApplication ==
    /\ Dispatched("rollback_application")
    /\ \E resp \in AppResponses : Finish(rollbackApplication(request.args, resp))

handleGetApplicationManifests ==
    /\ Dispatched("get_application_manifests")
    /\ \E resp \in ManifestResponses : Finish(getApplicationManifests(request.args, resp))

handleGetApplicationDiff ==
    /\ Dispatched("get_application_diff")
    /\ \E resp \in ResourceResponses :
         \E o \in getApplicationDiff(request.args, resp) : Finish(o)

handleListResourceActions ==
    /\ Dispatched("list_resource_actions")
    /\ \E resp \in ListResponses : Finish(listResourceActions(request.args, resp))

handleRunResourceAction ==
    /\ Dispatched("run_resource_action")
    /\ \E resp \in ErrorOrNil : Finish(runResourceAction(request.args, resp))

handleGetApplicationResource ==
    /\ Dispatched("get_application_resource")
    /\ \E resp \in ResourceManifestResponses : Finish(getApplicationResource(request.args, resp))

handlePatchApplicationResource ==
    /\ Dispatched("patch_application_resource")
    /\ \E resp \in ResourceManifestResponses : Finish(patchApplicationResource(request.args, resp))

handleDeleteApplicationResource ==
    /\ Dispatched("delete_application_resource")
    /\ \E resp \in ErrorOrNil : Finish(deleteApplicationResource(request.args, resp))

handleGetProject ==
    /\ Dispatched("get_project")
    /\ \E resp \in ProjectResponses : Finish(getProject(request.args, resp))

handleCreateProject ==
    /\ Dispatched("create_project")
    /\ \E resp \in ProjectResponses : Finish(createProject(request.args, resp))

handleUpdateProject ==
    /\ Dispatched("update_project")
    /\ \E existing \in ProjectResponses, updated \in ProjectResponses :
         Finish(updateProject(request.args, existing, updated))

handleDeleteProject ==
    /\ Dispatched("delete_project")
    /\ \E resp \in ErrorOrNil : Finish(deleteProject(request.args, resp))

handleGetRepository ==
    /\ Dispatched("get_repository")
    /\ \E resp \in RepositoryResponses : Finish(getRepository(request.args, resp))

handleCreateRepository ==
    /\ Dispatched("create_repository")
    /\ \E resp \in RepositoryResponses : Finish(createRepository(request.args, resp))

handleUpdateRepository ==
    /\ Dispatched("update_repository")
    /\ \E existing \in RepositoryResponses, updated \in RepositoryResponses :
         Finish(updateRepository(request.args, existing, updated))

handleDeleteRepository ==
    /\ Dispatched("delete_repository")
    /\ \E resp \in ErrorOrNil : Finish(deleteRepository(request.args, resp))

handleValidateRepository ==
    /\ Dispatched("validate_repository")
    /\ \E resp \in ErrorOrNil : Finish(validateRepository(request.args, resp))

handleGetCluster ==
    /\ Dispatched("get_cluster")
    /\ \E resp \in ClusterResponses : Finish(getCluster(request.args, resp))

handleCreateCluster ==
    /\ Dispatched("create_cluster")
    /\ \E resp \in ClusterResponses : Finish(createCluster(request.args, resp))

handleUpdateCluster ==
    /\ Dispatched("update_cluster")
    /\ \E existing \in ClusterResponses, updated \in ClusterResponses :
         Finish(updateCluster(request.args, existing, updated))

handleDeleteCluster ==
    /\ Dispatched("delete_cluster")
    /\ \E resp \in ErrorOrNil : Finish(deleteCluster(request.args, resp))

\* the default case of the switch: return errorResult("Unknown tool: ..."), nil
unknownTool ==
    /\ Pending
    /\ request.args # InvalidArguments
    /\ request.tool \notin ToolNames
    /\ Finish(Rejected(errorResult("Unknown tool: " \o request.tool)))

\* the arguments are not a map: return errorResult("Invalid arguments format"), nil
invalidArguments ==
    /\ Pending
    /\ request.args = InvalidArguments
    /\ Finish(Rejected(errorResult("Invalid arguments format")))

\* ResultList(items, 0, nil) applied to one value
BResultList ==
    /\ bPc = "ready"
    /\ bOut' = ResultList(bIn, 0)
    /\ bPc' = "listed"
    /\ UNCHANGED bIn

(***************************************************************************)
(* Specifications.                                                         *)
(***************************************************************************)
BIdle == bIn = Null /\ bOut = Null /\ bPc = "idle"
DIdle == dTarget = EmptyText /\ dLive = EmptyText /\ dVia = "none" /\ dOut = <<>>
         /\ dShown = <<EmptyText, EmptyText>> /\ dPc = "idle"
EIdle == evRaw = Null /\ evOut = [ok |-> TRUE, events |-> <<>>] /\ evPc = "idle"
TIdle == safeMode = FALSE /\ request = NoRequest /\ response = NoResponse
         /\ platformCalls = <<>> /\ submitted = Null /\ result = NoResult

\* the tool manager serving calls
Init == TInit /\ BIdle /\ DIdle /\ EIdle

Next ==
    \/ CallTool /\ UNCHANGED <<bVars, dVars, eVars>>
    \/ handleListApplications /\ UNCHANGED <<bVars, dVars, eVars>>
    \/ handleListProjects /\ UNCHANGED <<bVars, dVars, eVars>>
    \/ handleListRepositories /\ UNCHANGED <<bVars, dVars, eVars>>
    \/ handleListClusters /\ UNCHANGED <<bVars, dVars, eVars>>
    \/ handleGetApplicationEvents /\ UNCHANGED <<bVars, dVars, eVars>>
    \/ handleGetProjectEvents /\ UNCHANGED <<bVars, dVars, eVars>>
    \/ handleGetApplication /\ UNCHANGED <<bVars, dVars, eVars>>
    \/ handleCreateApplication /\ UNCHANGED <<bVars, dVars, eVars>>
    \/ handleUpdateApplication /\ UNCHANGED <<bVars, dVars, eVars>>
    \/ handleDeleteApplication /\ UNCHANGED <<bVars, dVars, eVars>>
    \/ handleSyncApplication /\ UNCHANGED <<bVars, dVars, eVars>>
    \/ handleRollbackApplication /\ UNCHANGED <<bVars, dVars, eVars>>
    \/ handleGetApplicationManifests /\ UNCHANGED <<bVars, dVars, eVars>>
    \/ handleGetApplicationDiff /\ UNCHANGED <<bVars, dVars, eVars>>
    \/ handleListResourceActions /\ UNCHANGED <<bVars, dVars, eVars>>
    \/ handleRunResourceAction /\ UNCHANGED <<bVars, dVars, eVars>>
    \/ handleGetApplicationResource /\ UNCHANGED <<bVars, dVars, eVars>>
    \/ handlePatchApplicationResource /\ UNCHANGED <<bVars, dVars, eVars>>
    \/ handleDeleteApplicationResource /\ UNCHANGED <<bVars, dVars, eVars>>
    \/ handleGetProject /\ UNCHANGED <<bVars, dVars, eVars>>
    \/ handleCreateProject /\ UNCHANGED <<bVars, dVars, eVars>>
    \/ handleUpdateProject /\ UNCHANGED <<bVars, dVars, eVars>>
    \/ handleDeleteProject /\ UNCHANGED <<bVars, dVars, eVars>>
    \/ handleGetRepository /\ UNCHANGED <<bVars, dVars, eVars>>
    \/ handleCreateRepository /\ UNCHANGED <<bVars, dVars, eVars>>
    \/ handleUpdateRepository /\ UNCHANGED <<bVars, dVars, eVars>>
    \/ handleDeleteRepository /\ UNCHANGED <<bVars, dVars, eVars>>
    \/ handleValidateRepository /\ UNCHANGED <<bVars, dVars, eVars>>
    \/ handleGetCluster /\ UNCHANGED <<bVars, dVars, eVars>>
    \/ handleCreateCluster /\ UNCHANGED <<bVars, dVars, eVars>>
    \/ handleUpdateCluster /\ UNCHANGED <<bVars, dVars, eVars>>
    \/ handleDeleteCluster /\ UNCHANGED <<bVars, dVars, eVars>>
    \/ unknownTool /\ UNCHANGED <<bVars, dVars, eVars>>
    \/ invalidArguments /\ UNCHANGED <<bVars, dVars, eVars>>

Spec == Init /\ [][Next]_vars

\* truncateResponse applied to one value
InitBound == BInit /\ DIdle /\ EIdle /\ TIdle

NextBound ==
    \/ BResult /\ UNCHANGED <<dVars, eVars, tVars>>
    \/ BResultList /\ UNCHANGED <<dVars, eVars, tVars>>

SpecBound == InitBound /\ [][NextBound]_vars

\* computeDiff applied to one pair of manifests
InitDiff == DInit /\ BIdle /\ EIdle /\ TIdle

NextDiff ==
    \/ DComputeDiff /\ UNCHANGED <<bVars, eVars, tVars>>
    \/ DPipeline /\ UNCHANGED <<bVars, eVars, tVars>>

SpecDiff == InitDiff /\ [][NextDiff]_vars

\* parseEvents applied to one payload
InitEvents == EInit /\ BIdle /\ DIdle /\ TIdle

NextEvents == EParseEvents /\ UNCHANGED <<bVars, dVars, tVars>>

SpecEvents == InitEvents /\ [][NextEvents]_vars

\* the pure functions together: truncateResponse, stripManagedFieldsYaml, computeDiff
InitPure == InitBound \/ InitDiff

NextPure ==
    \/ NextBound
    \/ NextDiff

SpecPure == InitPure /\ [][NextPure]_vars

(***************************************************************************)
(* Properties of the ResponseBounder (checked under SpecBound).            *)
(***************************************************************************)
\* every string / every sequence anywhere in a value
RECURSIVE StringsOf(_)
StringsOf(v) ==
    CASE v.k = "str" -> { v }
      [] v.k = "seq" -> UNION { StringsOf(v.items[i]) : i \in 1..Len(v.items) }
      [] IsMapping(v) -> UNION { StringsOf(v.fields[key]) : key \in DOMAIN v.fields }
      [] OTHER -> {}

RECURSIVE SeqsOf(_)
SeqsOf(v) ==
    CASE v.k = "seq" -> { v } \cup UNION { SeqsOf(v.items[i]) : i \in 1..Len(v.items) }
      [] IsMapping(v) -> UNION { SeqsOf(v.fields[key]) : key \in DOMAIN v.fields }
      [] OTHER -> {}

WithinCeilings(v) ==
    /\ \A s \in StringsOf(v) :
         StrLen(s) <= MaxResponseSizeChars /\ LineCount(s) <= MaxResponseLines
    /\ \A q \in SeqsOf(v) : Len(q.items) <= MaxListItems

\* the payload tells the caller flag = b
Told(payload, flag, b) ==
    /\ payload.k = "map"
    /\ flag \in DOMAIN payload.fields
    /\ payload.fields[flag] = Bool(b)

\* C1: every string anywhere in the value truncateResponse returns has at
\* most MaxResponseSizeChars characters, strings inside sequences included.
C1_StringsWithinChars ==
    bPc = "done" => \A s \in StringsOf(bOut) : StrLen(s) <= MaxResponseSizeChars

\* C2: a string passed through truncateResponse comes back with at most
\* MaxResponseLines lines, the marker line counted.
C2_StringWithinLines ==
    (bPc = "done" /\ bIn.k = "str") => LineCount(bOut) <= MaxResponseLines

\* C3: every sequence anywhere in the value truncateResponse returns has at
\* most MaxListItems elements, at every nesting depth.
C3_SequencesWithinItems ==
    bPc = "done" => \A q \in SeqsOf(bOut) : Len(q.items) <= MaxListItems

IsObjectText(text) == text.fmt \in {"yaml", "json"} /\ text.doc.k = "map"

\* the lines of a diff with the given path / path and kind
LinesAt(diff, path) == { i \in 1..Len(diff) : diff[i].path = path }
LinesOf(diff, path, kind) == { i \in LinesAt(diff, path) : diff[i].kind = kind }

\* the keys and indexes present on one side only, wherever an object meets an
\* object or a sequence meets a sequence: <<path, "ADDED" or "REMOVED">>
RECURSIVE OneSided(_, _, _)
OneSided(path, t, l) ==
    IF t.k = "map" /\ l.k = "map"
    THEN { <<JoinPath(path, key), "REMOVED">> : key \in (DOMAIN t.fields) \ (DOMAIN l.fields) }
         \cup { <<JoinPath(path, key), "ADDED">> : key \in (DOMAIN l.fields) \ (DOMAIN t.fields) }
         \cup UNION { OneSided(JoinPath(path, key), t.fields[key], l.fields[key]) :
                        key \in (DOMAIN t.fields) \cap (DOMAIN l.fields) }
    ELSE IF t.k = "seq" /\ l.k = "seq"
    THEN { <<path \o "[" \o ToString(i - 1) \o "]", "REMOVED">> :
             i \in (Len(l.items) + 1)..Len(t.items) }
         \cup { <<path \o "[" \o ToString(i - 1) \o "]", "ADDED">> :
                  i \in (Len(t.items) + 1)..Len(l.items) }
         \cup UNION { OneSided(path \o "[" \o ToString(i - 1) \o "]", t.items[i], l.items[i]) :
                        i \in 1..(IF Len(t.items) < Len(l.items) THEN Len(t.items) ELSE Len(l.items)) }
    ELSE {}

IsScalar(v) == v.k \in {"text", "num", "bool", "null"}

\* C5: computeDiff(X, X) is empty for every document X that parses to an object.
C5_DiffOfSelfEmpty ==
    (dPc = "done" /\ IsObjectText(dTarget) /\ dLive = dTarget) => dOut = <<>>

\* C5 witness: a document with a nested object and one with a nested sequence
\* was compared with itself.
C5_Witness ==
    /\ dPc = "done" /\ dVia = "yaml"
    /\ IsObjectText(dTarget) /\ dLive = dTarget
    /\ "data" \in DOMAIN dTarget.doc.fields
    /\ dTarget.doc.fields["data"].k = "map"
    /\ "key" \in DOMAIN dTarget.doc.fields["data"].fields
    /\ dTarget.doc.fields["data"].fields["key"].k = "seq"
    /\ Len(dTarget.doc.fields["data"].fields["key"].items) = 2

\* C6: the diff holds exactly one ADDED line for each key or index present
\* only in live and exactly one REMOVED line for each present only in target,
\* at every depth, and no other ADDED or REMOVED line.
C6_AddedRemovedAtEveryDepth ==
    (dPc = "done" /\ dVia = "yaml" /\ IsObjectText(dTarget) /\ IsObjectText(dLive)) =>
        /\ \A e \in OneSided("", dTarget.doc, dLive.doc) :
             Cardinality(LinesOf(dOut, e[1], e[2])) = 1
        /\ \A i \in 1..Len(dOut) :
             dOut[i].kind \in {"ADDED", "REMOVED"} =>
                 <<dOut[i].path, dOut[i].kind>> \in OneSided("", dTarget.doc, dLive.doc)

\* C7: for a key present on both sides with scalar values a (target) and b
\* (live): when a # b the diff has exactly one line at that key, a changed
\* line that gives a as the target value and b as the live value; when
\* a = b it has none.  The diff describes the step from target to live (a key
\* only in target is REMOVED, a key only in live is ADDED), so in "X -> Y" the
\* target value is X and the live value is Y.
C7_ChangedScalar ==
    (/\ dPc = "done" /\ dVia = "yaml" /\ IsObjectText(dTarget) /\ IsObjectText(dLive)
     /\ "data" \in DOMAIN dTarget.doc.fields /\ "data" \in DOMAIN dLive.doc.fields
     /\ IsScalar(dTarget.doc.fields["data"]) /\ IsScalar(dLive.doc.fields["data"])) =>
        LET a == dTarget.doc.fields["data"]
            b == dLive.doc.fields["data"]
        IN IF a = b THEN LinesAt(dOut, "data") = {}
           ELSE /\ Cardinality(LinesAt(dOut, "data")) = 1
                /\ \A i \in LinesAt(dOut, "data") :
                     /\ dOut[i].kind = "CHANGED"
                     /\ dOut[i].left = Sprint(a)
                     /\ dOut[i].right = Sprint(b)

\* C8: target {"data":{"key":"new"}} and live {"data":{"key":"old"}}, taken
\* through strip, render, parse and compare, give exactly one changed line,
\* at path data.key, with the values new and old.
C8_NestedChangeAtLeafPath ==
    (/\ dPc = "done" /\ dVia = "json"
     /\ dTarget = JsonText(Obj([data |-> Obj([key |-> Text("new")])]))
     /\ dLive = JsonText(Obj([data |-> Obj([key |-> Text("old")])]))) =>
        /\ Len(dOut) = 1
        /\ dOut[1].path = "data.key"
        /\ dOut[1].kind = "CHANGED"
        /\ {dOut[1].left, dOut[1].right} = {"new", "old"}

(***************************************************************************)
(* Properties of the list tools (checked under Spec).                      *)
(***************************************************************************)
Returned == request # NoRequest /\ result # NoResult

Min(a, b) == IF a < b THEN a ELSE b

\* the limit argument of the call is the number l
LimitIs(l) == "limit" \in DOMAIN request.args /\ request.args["limit"] = Num(l)

\* C9: list_applications with n applications and a limit L, 1 <= L <=
\* MaxListItems, returns the first min(n, L) applications in the platform's
\* order and total = n.
C9_ListApplicationsLimit ==
    \A L \in 1..MaxListItems :
        (Returned /\ request.tool = "list_applications" /\ response.ok /\ LimitIs(L)) =>
            LET n == Len(response.items)
            IN /\ result.kind = "ok"
               /\ result.data.fields["total"] = Num(n)
               /\ result.data.fields["items"] =
                      List([i \in 1..Min(n, L) |-> formatApplicationSummary(response.items[i])])

\* C9 witness: 10 applications, limit 3: 3 items, total 10.
C9_Witness ==
    /\ Returned /\ request.tool = "list_applications" /\ response.ok /\ LimitIs(3)
    /\ Len(response.items) = 10
    /\ result.kind = "ok"
    /\ Len(result.data.fields["items"].items) = 3
    /\ result.data.fields["total"] = Num(10)

ListShaped ==
    ListTools \cup { "get_application_events", "get_project_events" }

\* the entries the platform returned to the call
PlatformCount ==
    IF request.tool \in ListTools THEN Len(response.items)
    ELSE Len(parseEvents(response.raw).events)

IsEventRecords(v) ==
    v.k = "seq" /\ Len(v.items) >= 1 /\ \A i \in 1..Len(v.items) : v.items[i].k = "map"

IsWrapped(v) == v.k = "map" /\ "items" \in DOMAIN v.fields

\* C12: for a sequence S of one or more event records, parseEvents of
\* {"items": S} and parseEvents of S itself both succeed and return the
\* records of S in the order of S, as many as S has.
C12_WrappedAndBareAgree ==
    evPc = "done" =>
        /\ IsEventRecords(evRaw) => evOut = [ok |-> TRUE, events |-> evRaw.items]
        /\ (IsWrapped(evRaw) /\ IsEventRecords(evRaw.fields["items"])) =>
               /\ evOut = [ok |-> TRUE, events |-> evRaw.fields["items"].items]
               /\ evOut = parseEvents(evRaw.fields["items"])

C12_Witness ==
    /\ evPc = "done"
    /\ evRaw = Events(3)
    /\ evOut.ok /\ Len(evOut.events) = 3 /\ evOut.events[3] = Event(3)

\* C13: parseEvents returns an error and no event list for every payload
\* that is neither an object with a non-empty items sequence of records nor a
\* bare sequence of records; {} and null in particular are errors, never an
\* empty list without an error.
C13_MalformedIsError ==
    (/\ evPc = "done"
     /\ ~(IsWrapped(evRaw) /\ IsEventRecords(evRaw.fields["items"]))
     /\ ~(evRaw.k = "seq" /\ \A i \in 1..Len(evRaw.items) : evRaw.items[i].k = "map"))
    => ~evOut.ok

(***************************************************************************)
(* Unparsable manifests in the StructuralDiffer (checked under SpecDiff).  *)
(***************************************************************************)
\* C20: when target or live is non-empty text that does not parse as a
\* document, computeDiff compares the two as whole strings: one changed
\* entry when the two texts differ, no entry when they are equal.
C20_UnparsableComparedAsStrings ==
    (/\ dPc = "done"
     /\ dTarget.fmt # "empty" /\ dLive.fmt # "empty"
     /\ dTarget.fmt = "raw" \/ dLive.fmt = "raw")
    => IF dTarget = dLive THEN dOut = <<>>
       ELSE Len(dOut) = 1 /\ dOut[1].kind = "CHANGED"

(***************************************************************************)
(* Properties of the tool handlers (checked under Spec), and of            *)
(* ResultList (checked under SpecBound).                                   *)
(***************************************************************************)
ItemsOf(field) == result.data.fields[field].items

\* C11: a limit argument never raises the item ceiling: whatever the limit,
\* get_application_events returns at most MaxEvents items,
\* get_application_diff at most MaxDiffResources out_of_sync and at most
\* MaxDiffResources synced resources, and the four list tools at most
\* MaxListItems items.
C11_LimitNeverRaisesCeiling ==
    (Returned /\ result.kind = "ok") =>
        /\ request.tool = "get_application_events" => Len(ItemsOf("items")) <= MaxEvents
        /\ request.tool = "get_application_diff" =>
               /\ Len(ItemsOf("out_of_sync")) <= MaxDiffResources
               /\ Len(ItemsOf("synced")) <= MaxDiffResources
        /\ request.tool \in ListTools => Len(ItemsOf("items")) <= MaxListItems

\* C14: in safe mode every call to a write tool returns an error result and
\* calls no method of the platform client, whatever its arguments and
\* whatever calls came before; and no step changes safe mode.
C14_SafeModeBlocksWrites ==
    /\ []((safeMode /\ Returned /\ request.tool \in WriteTools) =>
             (result.kind = "error" /\ platformCalls = <<>> /\ submitted = Null))
    /\ [][safeMode' = safeMode]_vars

C14_Witness ==
    /\ safeMode /\ Returned
    /\ request.tool = "update_cluster"
    /\ request.args # InvalidArguments /\ "config" \in DOMAIN request.args
    /\ result.kind = "error" /\ platformCalls = <<>>

\* the prune argument of the call is the boolean true
PruneIsTrue == "prune" \in DOMAIN request.args /\ request.args["prune"] = Bool(TRUE)

\* C15: in safe mode sync_application is refused (error result, no client
\* call) exactly when prune is the boolean true; otherwise the request goes
\* to the platform client and what the client returns is a non-error result.
C15_SyncRefusedOnlyWithPrune ==
    (safeMode /\ Returned /\ request.tool = "sync_application") =>
        IF PruneIsTrue
        THEN result.kind = "error" /\ platformCalls = <<>>
        ELSE /\ platformCalls = <<"SyncApplication">>
             /\ submitted.fields["prune"] = Bool(FALSE)
             /\ response.ok => result.kind = "ok"

C15_Witness ==
    /\ safeMode /\ Returned /\ request.tool = "sync_application"
    /\ "prune" \in DOMAIN request.args /\ request.args["prune"] = Text("true")
    /\ response.ok /\ result.kind = "ok"
    /\ platformCalls = <<"SyncApplication">>

\* C16: an error of the platform client comes back as an error result (for
\* validate_repository as a non-error result with valid = false and
\* success = false) with a nil Go error; no handler returns a non-nil Go
\* error; a tool name that is not registered gets an error result.
C16_ClientErrorsAreResults ==
    Returned =>
        /\ result.err = "nil"
        /\ (platformCalls # <<>> /\ ~response.ok) =>
               IF request.tool = "validate_repository"
               THEN /\ result.kind = "ok"
                    /\ result.data.fields["valid"] = Bool(FALSE)
                    /\ result.data.fields["success"] = Bool(FALSE)
               ELSE result.kind = "error"
        /\ request.tool \notin ToolNames => result.kind = "error"

C16_Witness ==
    /\ Returned /\ request.tool = "validate_repository"
    /\ platformCalls = <<"ValidateRepositoryAccess">> /\ ~response.ok
    /\ result.kind = "ok" /\ result.err = "nil"
    /\ result.data.fields["valid"] = Bool(FALSE)

\* C17: ResultList given items that are not a sequence of generic values
\* returns an error result with a nil Go error; it does not panic.
C17_ResultListRejectsNonSequence ==
    (bPc = "listed" /\ bIn.k # "seq") => (bOut.kind = "error" /\ bOut.err = "nil")

\* the application the client returned last has no Spec.Source
ReturnedAppHasNoSource ==
    /\ platformCalls # <<>> /\ response.ok
    /\ response.raw = App(Null)

\* C18: get_application and update_application on an application whose
\* Spec.Source is nil return a non-error result whose repo_url, path and
\* target_revision are the empty string, without a panic; and
\* update_application leaves a nil Source nil whatever repo_url, path or
\* target_revision it is given.
C18_NilSourceIsEmptyStrings ==
    /\ (/\ Returned /\ ReturnedAppHasNoSource
         /\ \/ request.tool = "get_application"
            \/ request.tool = "update_application" /\ Len(platformCalls) = 2)
        => /\ result.kind = "ok"
           /\ result.data.fields["repo_url"] = Text("")
           /\ result.data.fields["path"] = Text("")
           /\ result.data.fields["target_revision"] = Text("")
    /\ (/\ Returned /\ request.tool = "update_application" /\ Len(platformCalls) = 2
         /\ submitted = updatedApplication(request.args, App(Null)))
        => submitted.fields["source"] = Null

ComparedTarget == IF dVia = "json" THEN dShown[1] ELSE dTarget
ComparedLive == IF dVia = "json" THEN dShown[2] ELSE dLive

BothCompared ==
    /\ dPc = "done"
    /\ ComparedTarget.fmt # "empty" /\ ComparedLive.fmt # "empty"
    /\ yamlUnmarshalMap(ComparedTarget).ok /\ yamlUnmarshalMap(ComparedLive).ok

TargetFields == yamlUnmarshalMap(ComparedTarget).v.fields
LiveFields == yamlUnmarshalMap(ComparedLive).v.fields
LiveOnlyKeys == (DOMAIN LiveFields) \ (DOMAIN TargetFields)

\* the last n lines of the diff
LastLines(n) == (Len(dOut) - n + 1)..Len(dOut)

\* C21: at one object level the lines for the keys of target (REMOVED, changed,
\* lines of a recursion) all come before the ADDED lines for the keys only live
\* has: the diff ends with one ADDED line per live-only key and everything
\* else stands before them.
C21_TargetKeysBeforeAdded ==
    BothCompared =>
        /\ Len(dOut) >= Cardinality(LiveOnlyKeys)
        /\ \A i \in LastLines(Cardinality(LiveOnlyKeys)) : dOut[i].kind = "ADDED"
        /\ { dOut[i].path : i \in LastLines(Cardinality(LiveOnlyKeys)) } = LiveOnlyKeys

\* C21 witness: a diff with a line for a key of target and an ADDED line for a
\* key only live has.
C21_Witness ==
    /\ BothCompared
    /\ LiveOnlyKeys # {}
    /\ Len(dOut) > Cardinality(LiveOnlyKeys)
    /\ dOut[1].kind \in {"REMOVED", "CHANGED"}
    /\ dOut[Len(dOut)].kind = "ADDED"

\* C22: computeDiff is deterministic: a second run over the same two texts
\* returns the lines of the first run in the same order.
C22_Deterministic ==
    dPc = "done" => \A again \in computeDiff(ComparedTarget, ComparedLive) : again = dOut

\* C23: no two lines of one diff carry the same path.
C23_PathsDistinct ==
    dPc = "done" => \A i, j \in 1..Len(dOut) : dOut[i].path = dOut[j].path => i = j

\* both documents hold a sequence under data
BothHaveSequence ==
    /\ BothCompared
    /\ "data" \in DOMAIN TargetFields /\ "data" \in DOMAIN LiveFields
    /\ TargetFields["data"].k = "seq" /\ LiveFields["data"].k = "seq"

ItemPath(i) == "data[" \o ToString(i - 1) \o "]"

\* C24: sequences are compared position by position: a line at every index
\* where the two elements differ, an ADDED line for every index only live has
\* and a REMOVED line for every index only target has.
C24_SequencesByPosition ==
    BothHaveSequence =>
        LET t == TargetFields["data"].items
            l == LiveFields["data"].items
        IN /\ \A i \in 1..Min(Len(t), Len(l)) :
                  t[i] # l[i] => \E n \in 1..Len(dOut) : dOut[n].path = ItemPath(i)
           /\ \A i \in (Len(t) + 1)..Len(l) :
                  \E n \in 1..Len(dOut) : dOut[n] = Line(ItemPath(i), "ADDED", Sprint(l[i]), "")
           /\ \A i \in (Len(l) + 1)..Len(t) :
                  \E n \in 1..Len(dOut) : dOut[n] = Line(ItemPath(i), "REMOVED", Sprint(t[i]), "")

IsJsonObject(text) == text.fmt = "json" /\ text.doc.k = "map"

\* what C27 says of one text and its stripped rendering
StrippedAsSaid(text, shown) ==
    /\ IsJsonObject(text) =>
          /\ shown.fmt = "yaml" /\ shown.doc.k = "map"
          /\ DOMAIN shown.doc.fields = (DOMAIN text.doc.fields) \ {"managedFields"}
          /\ \A key \in DOMAIN shown.doc.fields : shown.doc.fields[key] = text.doc.fields[key]
    /\ (~IsJsonObject(text) \/ "managedFields" \notin DOMAIN text.doc.fields) =>
          shown = jsonToYaml(text)
    /\ (text.fmt = "json" /\ text.doc.k # "map") => shown = YamlText(text.doc)

\* C27: stripManagedFieldsYaml removes the top-level managedFields key and
\* nothing else: every other key keeps its value, nested managedFields keys
\* included; a text without a top-level managedFields key comes out as
\* jsonToYaml renders it; valid JSON that is no object is rendered, not failed.
C27_StripsOnlyTopLevel ==
    (dPc = "done" /\ dVia = "json") =>
        StrippedAsSaid(dTarget, dShown[1]) /\ StrippedAsSaid(dLive, dShown[2])

\* C27 witness: a document with managedFields at the top level and below data
\* was stripped, against valid JSON that is no object.
C27_Witness ==
    /\ dPc = "done" /\ dVia = "json"
    /\ IsJsonObject(dTarget)
    /\ "managedFields" \in DOMAIN dTarget.doc.fields
    /\ "data" \in DOMAIN dTarget.doc.fields
    /\ dTarget.doc.fields["data"] = Obj([managedFields |-> List(<<Text("new")>>)])
    /\ dShown[1].doc.fields["data"] = dTarget.doc.fields["data"]
    /\ dLive.fmt = "json" /\ dLive.doc.k = "seq"

(***************************************************************************)
(* Events, limits, the diff and manifests results.                         *)
(***************************************************************************)
EventTools == { "get_application_events", "get_project_events" }

EventFields == { "type", "reason", "message", "timestamp" }

\* C26: in the items of get_application_events and get_project_events a field
\* the platform's event record lacks is the empty string, a field it has is
\* passed on, and the call returns its items.
C26_MissingFieldIsEmptyString ==
    (Returned /\ request.tool \in EventTools /\ response.ok
       /\ parseEvents(response.raw).ok /\ result.kind # "panic") =>
        /\ result.kind = "ok"
        /\ \A i \in 1..Len(ItemsOf("items")) :
              LET event == parseEvents(response.raw).events[i]
                  item == ItemsOf("items")[i]
              IN event.k = "map" =>
                    /\ item.k = "map"
                    /\ \A f \in EventFields :
                          item.fields[f] = IF f \in DOMAIN event.fields
                                           THEN event.fields[f] ELSE Text("")

\* C28: whatever the limit argument, zero and negative numbers included,
\* list_applications, list_projects, list_repositories, list_clusters and
\* get_application_events return a result: the call does not panic.
C28_AnyLimitReturns ==
    (Returned /\ request.tool \in ListTools \cup {"get_application_events"}) =>
        result.kind # "panic"

\* the resources the platform returned that are (not) out of sync, in its order
PlatformOutOfSync == SelectSeq(response.items, IsOutOfSync)
PlatformSynced == SelectSeq(response.items, IsSynced)

DiffReturned ==
    Returned /\ request.tool = "get_application_diff" /\ response.ok /\ result.kind = "ok"

\* C29: out_of_sync_count is the number of out-of-sync resources among all the
\* resources the platform returned, whatever the limit; out_of_sync lists
\* out-of-sync resources and synced lists the others, each in the platform's
\* order, so no resource is in both.
C29_OutOfSyncCountIsAll ==
    DiffReturned =>
        /\ result.data.fields["out_of_sync_count"] = Num(Len(PlatformOutOfSync))
        /\ Len(ItemsOf("out_of_sync")) <= Len(PlatformOutOfSync)
        /\ \A i \in 1..Len(ItemsOf("out_of_sync")) :
              ItemsOf("out_of_sync")[i].fields["name"] = Name(PlatformOutOfSync[i].name)
        /\ Len(ItemsOf("synced")) <= Len(PlatformSynced)
        /\ \A i \in 1..Len(ItemsOf("synced")) :
              ItemsOf("synced")[i].fields["name"] = Name(PlatformSynced[i].name)

\* C30: limited is true exactly when an entry the platform returned was left
\* out: for get_application_diff when total exceeds the resources listed in
\* out_of_sync and synced together, for get_application_manifests when total
\* exceeds count.
C30_LimitedIffLeftOut ==
    (Returned /\ response.ok /\ result.kind = "ok") =>
        /\ request.tool = "get_application_diff" =>
              result.data.fields["limited"] =
                  Bool(result.data.fields["total"].n >
                           Len(ItemsOf("out_of_sync")) + Len(ItemsOf("synced")))
        /\ request.tool = "get_application_manifests" =>
              result.data.fields["limited"] =
                  Bool(result.data.fields["total"].n > result.data.fields["count"].n)

====
